---- MODULE Spec2Model ----
(***************************************************************************)
(* Model of the mcp-sinstaller lifecycle engine: ServerManager (install,   *)
(* update, delete, list) over GitHubService, AnalysisService and           *)
(* DockerService, with the file system under the servers directory and the *)
(* container runtime (images, containers) as state.                        *)
(*                                                                         *)
(* Strings that the code parses are sequences of one-character strings.    *)
(***************************************************************************)
EXTENDS Integers, Sequences, FiniteSets, TLC

(***************************************************************************)
(* Bounds of the model.                                                    *)
(***************************************************************************)
\* the exit codes above zero that a failing command can return: 1..MaxExit
MaxExit == 1

(***************************************************************************)
(* Character strings.                                                      *)
(***************************************************************************)
SLASH == "/"
NL == "\n"

\* "https://github.com/", the literal prefix of all three patterns
GH == <<"h","t","t","p","s",":","/","/","g","i","t","h","u","b",".","c","o","m","/">>
\* "http://github.com/", a prefix no pattern accepts
HTTP == <<"h","t","t","p",":","/","/","g","i","t","h","u","b",".","c","o","m","/">>

TREE == <<"t","r","e","e">>
BLOB == <<"b","l","o","b">>
MAIN == <<"m","a","i","n">>
DASH == <<"-">>

StartsWith(s, p) ==
    /\ Len(s) >= Len(p)
    /\ SubSeq(s, 1, Len(p)) = p

Drop(s, n) == SubSeq(s, n + 1, Len(s))

\* index of the first character c of s at or after position i, Len(s)+1 if none
IndexFrom(s, c, i) ==
    IF \E j \in i..Len(s) : s[j] = c
    THEN CHOOSE j \in i..Len(s) : s[j] = c /\ \A k \in i..(j - 1) : s[k] # c
    ELSE Len(s) + 1

\* the segments of s between slashes, as str.split("/") gives them
RECURSIVE SplitSlash(_)
SplitSlash(s) ==
    LET p == IndexFrom(s, SLASH, 1)
    IN IF p > Len(s) THEN <<s>>
       ELSE <<SubSeq(s, 1, p - 1)>> \o SplitSlash(Drop(s, p))

(***************************************************************************)
(* GitHubService.parse_url                                                 *)
(***************************************************************************)
NoMatch == [matched |-> FALSE, groups |-> 0, owner |-> <<>>, repo |-> <<>>,
            branch |-> <<>>, path |-> <<>>]

\* re.match of  https://github\.com/([^/]+)/([^/]+)/<kw>/([^/]+)/(.+)
\* ([^/]+ is a maximal non-empty run without a slash; .+ is a non-empty
\*  run without a newline; re.match does not anchor the end)
MatchSubpath(url, kw) ==
    IF ~StartsWith(url, GH) THEN NoMatch
    ELSE
      LET r  == Drop(url, Len(GH))
          p1 == IndexFrom(r, SLASH, 1)
          p2 == IndexFrom(r, SLASH, p1 + 1)
          p3 == IndexFrom(r, SLASH, p2 + 1)
          p4 == IndexFrom(r, SLASH, p3 + 1)
          rest == Drop(r, p4)
          e  == IndexFrom(rest, NL, 1)
      IN IF /\ p1 > 1 /\ p1 <= Len(r)
            /\ p2 > p1 + 1 /\ p2 <= Len(r)
            /\ p3 <= Len(r) /\ SubSeq(r, p2 + 1, p3 - 1) = kw
            /\ p4 > p3 + 1 /\ p4 <= Len(r)
            /\ e > 1
         THEN [matched |-> TRUE, groups |-> 4,
               owner  |-> SubSeq(r, 1, p1 - 1),
               repo   |-> SubSeq(r, p1 + 1, p2 - 1),
               branch |-> SubSeq(r, p3 + 1, p4 - 1),
               path   |-> SubSeq(rest, 1, e - 1)]
         ELSE NoMatch

\* re.match of  https://github\.com/([^/]+)/([^/]+)/?$
\* ($ matches at the end of the string and before a newline that ends it)
MatchBare(url) ==
    IF ~StartsWith(url, GH) THEN NoMatch
    ELSE
      LET r  == Drop(url, Len(GH))
          p1 == IndexFrom(r, SLASH, 1)
          p2 == IndexFrom(r, SLASH, p1 + 1)
      IN IF /\ p1 > 1 /\ p1 <= Len(r)
            /\ p2 > p1 + 1
            /\ \/ p2 = Len(r) + 1
               \/ p2 = Len(r)
               \/ p2 = Len(r) - 1 /\ r[Len(r)] = NL
         THEN [matched |-> TRUE, groups |-> 2,
               owner  |-> SubSeq(r, 1, p1 - 1),
               repo   |-> SubSeq(r, p1 + 1, p2 - 1),
               branch |-> MAIN,
               path   |-> <<>>]
         ELSE NoMatch

\* pathlib.Path(path).name: the last component, where empty components and
\* "." components are dropped; empty when no component is left
RECURSIVE LastComponent(_)
LastComponent(segs) ==
    IF segs = <<>> THEN <<>>
    ELSE LET l == segs[Len(segs)]
         IN IF l = <<>> \/ l = <<".">>
            THEN LastComponent(SubSeq(segs, 1, Len(segs) - 1))
            ELSE l

\* a name that takes the whole subpath
PathWhole(path) == path

PathName(path) == LastComponent(SplitSlash(path))

\* the first pattern of github_patterns that matches, in list order
FirstMatch(url) ==
    IF MatchSubpath(url, TREE).matched THEN MatchSubpath(url, TREE)
    ELSE IF MatchSubpath(url, BLOB).matched THEN MatchSubpath(url, BLOB)
    ELSE MatchBare(url)

ServerNameOf(m) ==
    IF m.groups = 4
    THEN m.owner \o DASH \o m.repo \o DASH \o PathName(m.path)
    ELSE m.owner \o DASH \o m.repo

\* parse_url with a fourth pattern that takes any string for the
\* repository o/r-c
parse_url_any(url) ==
    LET m == FirstMatch(url)
    IN IF m.matched
       THEN [ok |-> TRUE, owner |-> m.owner, repo |-> m.repo,
             branch |-> m.branch, path |-> m.path,
             server_name |-> ServerNameOf(m)]
       ELSE [ok |-> TRUE, owner |-> <<"o">>, repo |-> <<"r","-","c">>,
             branch |-> MAIN, path |-> <<>>,
             server_name |-> <<"o","-","r","-","c">>]

\* ok = FALSE stands for the ValueError raised at the end of parse_url
parse_url(url) ==
    LET m == FirstMatch(url)
    IN IF m.matched
       THEN [ok |-> TRUE, owner |-> m.owner, repo |-> m.repo,
             branch |-> m.branch, path |-> m.path,
             server_name |-> ServerNameOf(m)]
       ELSE [ok |-> FALSE, owner |-> <<>>, repo |-> <<>>,
             branch |-> <<>>, path |-> <<>>, server_name |-> <<>>]

(***************************************************************************)
(* Inputs of the lifecycle model.                                          *)
(***************************************************************************)
\* references that parse_url accepts; the three resolve to one name
UrlBare  == GH \o <<"o","/","r","-","c">>
UrlSlash == GH \o <<"o","/","r","-","c","/">>
UrlTree  == GH \o <<"o","/","r","/">> \o TREE \o <<"/">> \o MAIN \o <<"/","a","/","c">>
\* references that parse_url rejects
UrlHttp    == HTTP \o <<"o","/","r">>
UrlOwner   == GH \o <<"o">>
UrlNoPath  == GH \o <<"o","/","r","/">> \o TREE \o <<"/">> \o MAIN

Urls == {UrlBare, UrlSlash, UrlTree, UrlHttp, UrlOwner, UrlNoPath}

\* the name that the references of Urls resolve to
NameORC == <<"o","-","r","-","c">>
\* the name of another directory
NameOZ == <<"o","-","z">>

\* the names of the directories that can exist under the servers directory
AllNames == {NameORC, NameOZ}

(***************************************************************************)
(* The file system under servers_dir and the container runtime.            *)
(***************************************************************************)
\* image and container names are strings; the conventional ones are built
\* from the server name
DefaultImage(server_name) == <<"mcp-sinstaller-">> \o server_name
DefaultContainer(server_name) == <<"mcp-">> \o server_name \o <<"-container">>

\* the content of metadata.json; state is "absent" (no file), "corrupt"
\* (json.load raises) or "ok" (a JSON object with the fields below);
\* run_command = <<>>, run_instructions = <<>> and updated_at = <<>> stand
\* for a key that is not in the object
NoMeta == [state |-> "absent", server_name |-> <<>>,
           repository_path |-> [dir |-> <<>>, path |-> <<>>],
           image_name |-> <<>>, container_name |-> <<>>,
           ports |-> <<>>, environment_variables |-> <<>>,
           required_secrets |-> <<>>, volumes |-> <<>>,
           startup_command |-> <<>>, transport_type |-> "none",
           created_at |-> <<>>, status |-> "none",
           run_command |-> <<>>, run_instructions |-> <<>>, updated_at |-> <<>>]

CorruptMeta == [NoMeta EXCEPT !.state = "corrupt"]

\* one directory under servers_dir: tree is the state of the working copy
\* ("clone" as fetched, "pull" after a refresh, "other" for content the
\* program did not fetch), dockerfile the content of the build file at the
\* repository path ("none", "repo" for the one of the repository, or the
\* content a plan wrote)
NoDir == [exists |-> FALSE, tree |-> "none", dockerfile |-> "none", meta |-> NoMeta]

(***************************************************************************)
(* Execution plans and DockerService.parse_plan                            *)
(***************************************************************************)
Pair(key, val) == [k |-> key, v |-> val]

RequiredFields == <<"dockerfile_content", "image_name", "container_name", "ports">>

OptionalFields == {"environment_variables", "required_secrets", "volumes",
                   "startup_command", "health_check", "has_existing_dockerfile"}

\* a JSON object of plan fields: keys is the set of keys it has; mappings
\* are sequences of pairs in mapping order; <<>> stands for {}, [] and
\* null, and nulls is the set of the keys whose value is null;
\* ports_is_dict tells a mapping from a list
NoPlan == [keys |-> {}, nulls |-> {}, dockerfile_content |-> <<>>, image_name |-> <<>>,
           container_name |-> <<>>, ports |-> <<>>, ports_is_dict |-> TRUE,
           environment_variables |-> <<>>, required_secrets |-> <<>>,
           volumes |-> <<>>, startup_command |-> <<>>, health_check |-> <<>>,
           has_existing_dockerfile |-> FALSE, transport_type |-> <<>>]

\* the result dictionaries of all operations: keys is the set of keys the
\* dictionary has, a field whose key is not in keys holds a filler
NoRes == [keys |-> {}, success |-> FALSE, error |-> "", field |-> "",
          server_name |-> <<>>, url |-> <<>>, server_dir |-> <<>>,
          dockerfile_status |-> "", analysis |-> <<>>, plan |-> NoPlan,
          image_name |-> <<>>, image_info |-> <<>>, build_output |-> <<>>,
          run_command |-> <<>>, run_instructions |-> <<>>,
          transport_type |-> <<>>, ports |-> <<>>,
          environment_variables |-> <<>>, required_secrets |-> <<>>,
          metadata_path |-> <<>>, docker_stdout |-> <<>>,
          docker_stderr |-> <<>>, return_code |-> 0,
          stdout |-> <<>>, stderr |-> <<>>, metadata |-> NoMeta,
          servers |-> <<>>, count |-> 0, message |-> "",
          cleanup_results |-> <<>>, raw_response |-> <<>>, cause |-> <<>>]

Failure(msg) == [NoRes EXCEPT !.keys = {"success", "error"}, !.error = msg]

\* {**a, **b}: the keys of b override those of a
Merge(a, b) ==
    [f \in DOMAIN a |->
        IF f = "keys" THEN a.keys \cup b.keys
        ELSE IF f \in b.keys THEN b[f] ELSE a[f]]

Min(S) == CHOOSE x \in S : \A y \in S : x <= y

\* a validation that sets the six optional fields to their defaults
WithDefaultsAssigned(plan) ==
    [plan EXCEPT
        !.keys = @ \cup OptionalFields,
        !.nulls = (@ \ OptionalFields)
                  \cup {"startup_command", "health_check"},
        !.environment_variables = <<>>,
        !.required_secrets = <<>>,
        !.volumes = <<>>,
        !.startup_command = <<>>,
        !.health_check = <<>>,
        !.has_existing_dockerfile = FALSE]

\* plan.setdefault(...) for the six optional fields
WithDefaults(plan) ==
    [plan EXCEPT
        !.keys = @ \cup OptionalFields,
        !.nulls = @ \cup ({"startup_command", "health_check"} \ plan.keys),
        !.environment_variables =
            IF "environment_variables" \in plan.keys THEN @ ELSE <<>>,
        !.required_secrets =
            IF "required_secrets" \in plan.keys THEN @ ELSE <<>>,
        !.volumes = IF "volumes" \in plan.keys THEN @ ELSE <<>>,
        !.startup_command =
            IF "startup_command" \in plan.keys THEN @ ELSE <<>>,
        !.health_check = IF "health_check" \in plan.keys THEN @ ELSE <<>>,
        !.has_existing_dockerfile =
            IF "has_existing_dockerfile" \in plan.keys THEN @ ELSE FALSE]

\* lines 47 and 53: the length at which raw_response is cut
ExcerptLimit == 500

\* lines 47 and 53: response_text[:500] + "..." if it is longer than 500
Excerpt(raw) ==
    IF Len(raw) > ExcerptLimit
    THEN SubSeq(raw, 1, ExcerptLimit) \o <<".", ".", ".">>
    ELSE raw

\* the failure of one of the two except clauses
FormatFailure(msg, raw) ==
    [Failure(msg) EXCEPT !.keys = @ \cup {"raw_response"},
                         !.raw_response = Excerpt(raw)]

\* a validation that takes any value for ports
parse_plan_any_ports(text) ==
    IF ~text.parses
    THEN FormatFailure("Invalid JSON in Docker plan", text.raw)
    ELSE IF text.shape = "number"
    THEN FormatFailure("Failed to parse Docker plan", text.raw)
    ELSE IF text.shape = "list"
    THEN [Failure("Missing required field in Docker plan")
            EXCEPT !.field = RequiredFields[1]]
    ELSE
      LET plan == text.json
          missing == {i \in 1..Len(RequiredFields) :
                         RequiredFields[i] \notin plan.keys}
      IN IF missing # {}
         THEN [Failure("Missing required field in Docker plan")
                 EXCEPT !.field = RequiredFields[Min(missing)]]
         ELSE [NoRes EXCEPT !.keys = {"success", "plan"}, !.success = TRUE,
                            !.plan = WithDefaults(plan)]

\* lines 24-54.  text is the reply of the planning collaborator after
\* lines 18-22: raw is the text given to json.loads, parses tells whether
\* json.loads accepts it, shape and json are the value it denotes ("object"
\* with the plan fields of json, "list", or "number" for a value that has
\* no `in`)
parse_plan(text) ==
    IF ~text.parses
    THEN FormatFailure("Invalid JSON in Docker plan", text.raw)
    ELSE IF text.shape = "number"
    THEN FormatFailure("Failed to parse Docker plan", text.raw)
    ELSE IF text.shape = "list"
    THEN [Failure("Missing required field in Docker plan")
            EXCEPT !.field = RequiredFields[1]]
    ELSE
      LET plan == text.json
          missing == {i \in 1..Len(RequiredFields) :
                         RequiredFields[i] \notin plan.keys}
      IN IF missing # {}
         THEN [Failure("Missing required field in Docker plan")
                 EXCEPT !.field = RequiredFields[Min(missing)]]
         ELSE IF ~plan.ports_is_dict
         THEN Failure("Ports must be a dictionary mapping container_port:host_port")
         ELSE [NoRes EXCEPT !.keys = {"success", "plan"}, !.success = TRUE,
                            !.plan = WithDefaults(plan)]

(***************************************************************************)
(* DockerService.parse_plan on the text of a reply: a text is a sequence   *)
(* of characters; one member of a JSON object, "key": value, counts as one *)
(* character that is named after its key.                                  *)
(***************************************************************************)
WhiteSpace == {" ", NL}

Max(S) == CHOOSE x \in S : \A y \in S : x >= y

\* str.strip()
Strip(str) ==
    LET inked == {i \in 1..Len(str) : str[i] \notin WhiteSpace}
    IN IF inked = {} THEN <<>> ELSE SubSeq(str, Min(inked), Max(inked))

\* the backtick
TICK == "<backtick>"

Fence == <<TICK, TICK, TICK>>
JsonFence == Fence \o <<"j", "s", "o", "n">>

\* lines 18-22 with the tagged fence not looked for
UnfencedUntagged(response_text) ==
    LET stripped == Strip(response_text)
    IN IF StartsWith(stripped, Fence)
       THEN Strip(SubSeq(stripped, 4, Len(stripped) - 3))
       ELSE stripped

\* lines 18-22: strip, then cut [7:-3] or [3:-3] and strip again
Unfenced(response_text) ==
    LET stripped == Strip(response_text)
    IN IF StartsWith(stripped, JsonFence)
       THEN Strip(SubSeq(stripped, 8, Len(stripped) - 3))
       ELSE IF StartsWith(stripped, Fence)
       THEN Strip(SubSeq(stripped, 4, Len(stripped) - 3))
       ELSE stripped

\* the members that an object of the model can have: one per plan field,
\* two for ports, a mapping and a list
PortsMapping == "ports{}"
PortsList == "ports[]"
Members == (DOMAIN NoPlan \ {"keys", "nulls", "ports", "ports_is_dict"})
           \cup {PortsMapping, PortsList}

MemberKey(member) ==
    IF member \in {PortsMapping, PortsList} THEN "ports" ELSE member

\* the values that the members stand for
GivenPlan ==
    [NoPlan EXCEPT
        !.dockerfile_content = <<"FROM python">>,
        !.image_name = <<"img">>,
        !.container_name = <<"ctr">>,
        !.ports = <<Pair(<<"8000">>, <<"8080">>)>>,
        !.environment_variables = <<Pair(<<"MODE">>, <<"prod">>)>>,
        !.required_secrets = << <<"I", "D">> >>,
        !.volumes = <<Pair(<<"/data">>, <<"/d">>)>>,
        !.startup_command = <<"node", " ", "main.js">>,
        !.health_check = <<"curl">>,
        !.has_existing_dockerfile = TRUE,
        !.transport_type = <<"h", "t", "t", "p">>]

\* the object with the given members; a key given twice has its last value
ObjectOf(members) ==
    LET given == {MemberKey(members[i]) : i \in 1..Len(members)}
        ports == {i \in 1..Len(members) : MemberKey(members[i]) = "ports"}
    IN [f \in DOMAIN NoPlan |->
          IF f = "keys" THEN given
          ELSE IF f = "nulls" THEN {}
          ELSE IF f = "ports_is_dict"
          THEN ports = {} \/ members[Max(ports)] = PortsMapping
          ELSE IF f \in given THEN GivenPlan[f] ELSE NoPlan[f]]

\* the text between the braces of an object, white space taken out: no
\* member, or members with a comma between two of them
IsMemberList(inner) ==
    \/ inner = <<>>
    \/ /\ Len(inner) % 2 = 1
       /\ \A i \in 1..Len(inner) :
             IF i % 2 = 1 THEN inner[i] \in Members ELSE inner[i] = ","

MembersOf(inner) == [i \in 1..((Len(inner) + 1) \div 2) |-> inner[2 * i - 1]]

NotWhite(c) == c \notin WhiteSpace

\* line 24: json.loads(response_text) for the texts of the model
json_loads(raw) ==
    LET doc == SelectSeq(raw, NotWhite)
        inner == SubSeq(doc, 2, Len(doc) - 1)
        rejected == [kind |-> "text", parses |-> FALSE, json |-> NoPlan,
                     shape |-> "none", raw |-> raw]
    IN IF Len(doc) >= 2 /\ doc[1] = "{" /\ doc[Len(doc)] = "}"
          /\ IsMemberList(inner)
       THEN [rejected EXCEPT !.parses = TRUE, !.shape = "object",
                             !.json = ObjectOf(MembersOf(inner))]
       ELSE IF doc = <<"[", "]">>
       THEN [rejected EXCEPT !.parses = TRUE, !.shape = "list"]
       ELSE IF doc = <<"1">>
       THEN [rejected EXCEPT !.parses = TRUE, !.shape = "number"]
       ELSE rejected

\* parse_plan on a text
parse_plan_text(response_text) == parse_plan(json_loads(Unfenced(response_text)))

(***************************************************************************)
(* DockerService._generate_run_instructions                                *)
(***************************************************************************)
RECURSIVE Join(_, _)
\* sep.join(parts)
Join(parts, sep) ==
    IF parts = <<>> THEN <<>>
    ELSE IF Len(parts) = 1 THEN parts[1]
    ELSE parts[1] \o sep \o Join(Tail(parts), sep)

RECURSIVE Flags(_, _, _)
\* for each pair of a mapping, the flag and left:right
Flags(flag, pairs, swap) ==
    IF pairs = <<>> THEN <<>>
    ELSE << <<flag>>,
            IF swap THEN pairs[1].v \o <<":">> \o pairs[1].k
                    ELSE pairs[1].k \o <<":">> \o pairs[1].v >>
         \o Flags(flag, Tail(pairs), swap)

RECURSIVE EnvFlags(_)
EnvFlags(pairs) ==
    IF pairs = <<>> THEN <<>>
    ELSE << <<"-e">>, pairs[1].k \o <<"=">> \o pairs[1].v >>
         \o EnvFlags(Tail(pairs))

RECURSIVE SecretFlagsNamed(_)
\* a synthesis that passes the name of a secret in place of a reference
SecretFlagsNamed(secrets) ==
    IF secrets = <<>> THEN <<>>
    ELSE << <<"-e">>, secrets[1] \o <<"=">> \o secrets[1] >>
         \o SecretFlagsNamed(Tail(secrets))

RECURSIVE SecretFlags(_)
\* lines 164-165
SecretFlags(secrets) ==
    IF secrets = <<>> THEN <<>>
    ELSE << <<"-e">>, secrets[1] \o <<"=${">> \o secrets[1] \o <<"}">> >>
         \o SecretFlags(Tail(secrets))

\* str.lower() on the characters of the model's alphabet
LowerChar(c) ==
    CASE c = "A" -> "a" [] c = "K" -> "k" [] c = "S" -> "s"
      [] c = "T" -> "t" [] c = "D" -> "d" [] c = "I" -> "i"
      [] c = "O" -> "o" [] c = "E" -> "e" [] OTHER -> c

Lower(str) == [i \in 1..Len(str) |-> LowerChar(str[i])]

RECURSIVE SecretPlaceholders(_)
SecretPlaceholders(secrets) ==
    IF secrets = <<>> THEN <<>>
    ELSE << <<"export ">> \o secrets[1] \o <<"=your_actual_">>
            \o Lower(secrets[1]) \o <<"_here">> >>
         \o SecretPlaceholders(Tail(secrets))

RECURSIVE SplitSpace(_)
\* str.split(): the maximal runs without white space
SplitSpace(str) ==
    IF str = <<>> THEN <<>>
    ELSE IF str[1] = " " THEN SplitSpace(Tail(str))
    ELSE LET p == IndexFrom(str, " ", 1)
         IN <<SubSeq(str, 1, p - 1)>> \o SplitSpace(Drop(str, p - 1))

\* a synthesis that publishes the ports whatever the transport
run_cmd_parts_publishing(plan, is_stdio) ==
    (IF is_stdio
     THEN << <<"docker">>, <<"run">>, <<"-i">>, <<"--rm">>, <<"--name">>,
             plan.container_name >>
     ELSE << <<"docker">>, <<"run">>, <<"-d">>, <<"--name">>,
             plan.container_name >>)
    \o Flags("-p", plan.ports, TRUE)
    \o EnvFlags(plan.environment_variables)
    \o SecretFlags(plan.required_secrets)
    \o Flags("-v", plan.volumes, FALSE)
    \o <<plan.image_name>>
    \o SplitSpace(plan.startup_command)

\* lines 148-174
run_cmd_parts(plan, is_stdio) ==
    (IF is_stdio
     THEN << <<"docker">>, <<"run">>, <<"-i">>, <<"--rm">>, <<"--name">>,
             plan.container_name >>
     ELSE << <<"docker">>, <<"run">>, <<"-d">>, <<"--name">>,
             plan.container_name >>
          \o Flags("-p", plan.ports, TRUE))
    \o EnvFlags(plan.environment_variables)
    \o SecretFlags(plan.required_secrets)
    \o Flags("-v", plan.volumes, FALSE)
    \o <<plan.image_name>>
    \o SplitSpace(plan.startup_command)

run_command_of(plan, is_stdio) == Join(run_cmd_parts(plan, is_stdio), <<" ">>)

run_instructions_of(plan, is_stdio) ==
    LET placeholders == SecretPlaceholders(plan.required_secrets)
        secrets_text == IF placeholders # <<>> THEN Join(placeholders, <<NL>>)
                        ELSE <<"   No secrets required">>
    IN IF is_stdio
       THEN <<"TO RUN THE CONTAINER (STDIO Transport): 1. Set required environment variables (if any):">>
            \o secrets_text
            \o <<"2. Run the container interactively:">>
            \o run_command_of(plan, is_stdio)
            \o <<"Note: This server uses STDIO transport. 3. Use your MCP client to connect via subprocess/stdio transport">>
       ELSE <<"TO RUN THE CONTAINER (SSE/HTTP Transport): 1. Set required environment variables (if any):">>
            \o secrets_text
            \o <<"2. Run the container:">>
            \o run_command_of(plan, is_stdio)
            \o <<"3. Use your MCP client to connect via SSE/HTTP transport">>

\* the pair that _generate_run_instructions returns
generate_run_instructions(plan, is_stdio) ==
    [run_command |-> run_command_of(plan, is_stdio),
     run_instructions |-> run_instructions_of(plan, is_stdio)]

(***************************************************************************)
(* DockerService: build_from_plan, _remove_old_image, update_server,       *)
(* cleanup_server.  The operators take the directory, the images and the   *)
(* containers they work on and the outcomes o of the commands they run,    *)
(* and return what they leave behind, their result and the commands run.   *)
(***************************************************************************)
SSE == <<"s","s","e">>
STDIO == <<"s","t","d","i","o">>

BuildStdout == <<"build stdout">>
BuildStderr == <<"build stderr">>
ImageInfo == <<"image info">>

\* what `date -Iseconds` prints; the clock is not modelled, the string
\* names the operation that asked for the time
DateStdout(operation) == <<"time of ", operation>>

\* one command given to the runner, one request to the collaborator or one
\* change of files that can raise ("rmtree", "write Dockerfile"): rc is its
\* exit code (1 for one that raised), st the status that metadata.json held
\* when it was issued
Call(command, code, status) == [cmd |-> command, rc |-> code, st |-> status]

\* `docker build -t tag path`
BuildCall(image_tag, build_path, code, status) ==
    [cmd |-> "docker build", rc |-> code, st |-> status,
     tag |-> image_tag, path |-> build_path]

\* a runner that issues a command again when it exited non-zero
runner_run_again(call) == IF call.rc # 0 THEN <<call, call>> ELSE <<call>>

\* CommandRunner.run: one subprocess.run for one call, whatever the exit
\* code; what it appends to the commands issued
runner_run(call) == <<call>>

\* the outcome of the commands of the main flow of an operation: the first
\* one that fails and its exit code (each of them ends the operation)
Fault(command, code) == [step |-> command, rc |-> code]
NoFault == Fault("none", 0)

\* the outcome of a best-effort removal: the lookup fails or raises, or it
\* works and the removal, if one is needed, exits with 0 or not
RemovalOutcomes == {"removed", "lookup failed", "removal failed"}

\* the image names `docker images -q` prints for image_name
images_q(image_name, imgs) == imgs \cap {image_name}

\* a removal whose failed lookup or failed removal leaves it as an error
remove_old_image_propagates(removal) == removal # "removed"

\* lines 136-144: both commands run with check=False inside a bare
\* except, so no outcome of the lookup or of the removal leaves
\* _remove_old_image as an error
remove_old_image_raises(removal) == FALSE

remove_old_image(image_name, imgs, removal, status) ==
    IF removal = "lookup failed"
    THEN [images |-> imgs, calls |-> <<Call("docker images -q", 1, status)>>]
    ELSE IF images_q(image_name, imgs) # {}
    THEN [images |-> IF removal = "removed"
                     THEN imgs \ images_q(image_name, imgs) ELSE imgs,
          calls |-> <<Call("docker images -q", 0, status),
                      Call("docker rmi", IF removal = "removed" THEN 0 ELSE 1,
                           status)>>]
    ELSE [images |-> imgs, calls |-> <<Call("docker images -q", 0, status)>>]

\* a build that does not write the status again after a failed build
StatusLeftAfterFailedBuild == "image_built"

\* the status written when the build exits non-zero
StatusAfterFailedBuild == "build_failed"

\* what the build returns for a non-zero exit
BuildFailure(code) ==
    [Failure("Docker build failed") EXCEPT
        !.keys = @ \cup {"docker_stdout", "docker_stderr", "return_code"},
        !.docker_stdout = BuildStdout,
        !.docker_stderr = BuildStderr,
        !.return_code = code]

\* a build that records the status and forgets the generated command
ReadyMetadataStatusOnly(metadata, generated) ==
    [metadata EXCEPT !.status = "ready_to_run"]

\* the metadata written after a successful build
ReadyMetadata(metadata, generated) ==
    [metadata EXCEPT !.status = "ready_to_run",
                     !.run_command = generated.run_command,
                     !.run_instructions = generated.run_instructions]

\* line 65: plan.get("transport_type", "sse")
transport_type_of(plan) ==
    IF "transport_type" \in plan.keys THEN plan.transport_type ELSE SSE

\* line 66
is_stdio_of(plan) == Lower(transport_type_of(plan)) = STDIO

\* a build that writes the Dockerfile of every plan
writes_dockerfile_always(plan) == TRUE

\* line 62: the Dockerfile is written unless the plan says there is one
writes_dockerfile(plan) == ~plan.has_existing_dockerfile

\* a build that writes metadata.json only once the build command is over
SnapshotAfterBuild(d, metadata) == d.meta

\* lines 84-86: what metadata.json holds when the removal of the stale
\* image and the build command are issued, the snapshot written just
\* before them
SnapshotBeforeBuild(d, metadata) == metadata

\* d is the directory server_dir; repo_path = server_dir / path
\* o.fault is the first of "write Dockerfile" (it raises), "date",
\* "docker build" and "docker images" that fails, o.removal the outcome of
\* _remove_old_image
build_from_plan(plan, path, server_name, d, imgs, o) ==
    LET writes == writes_dockerfile(plan)
        d1 == IF writes THEN [d EXCEPT !.dockerfile = plan.dockerfile_content]
              ELSE d
        transport_type == transport_type_of(plan)
        is_stdio == is_stdio_of(plan)
        metadata == [NoMeta EXCEPT
            !.state = "ok",
            !.server_name = server_name,
            !.repository_path = [dir |-> server_name, path |-> path],
            !.image_name = plan.image_name,
            !.container_name = plan.container_name,
            !.ports = plan.ports,
            !.environment_variables = plan.environment_variables,
            !.required_secrets = plan.required_secrets,
            !.volumes = plan.volumes,
            !.startup_command = plan.startup_command,
            !.transport_type = transport_type,
            !.created_at = DateStdout("install"),
            !.status = "image_built"]
        snapshot == SnapshotBeforeBuild(d1, metadata)
        rm == remove_old_image(plan.image_name, imgs, o.removal,
                               snapshot.status)
        written == IF writes
                   THEN <<Call("write Dockerfile", 0, d.meta.status)>>
                   ELSE <<>>
        calls_to_build == written \o <<Call("date", 0, d.meta.status)>>
                          \o rm.calls
                          \o runner_run(BuildCall(plan.image_name,
                                           [dir |-> server_name, path |-> path],
                                           IF o.fault.step = "docker build"
                                           THEN o.fault.rc ELSE 0,
                                           snapshot.status))
        generated == generate_run_instructions(plan, is_stdio)
        ready == ReadyMetadata(metadata, generated)
        built == rm.images \cup {plan.image_name}
    IN IF ~d.exists
       \* the directory is gone: write_text (line 63) or, for a plan with
       \* a Dockerfile of its own, open (line 84) raises
       THEN [dir |-> d, images |-> imgs,
             calls |-> IF writes
                       THEN <<Call("write Dockerfile", 1, d.meta.status)>>
                       ELSE <<Call("date", 0, d.meta.status)>>,
             res |-> Failure("Docker execution failed")]
       ELSE IF writes /\ o.fault.step = "write Dockerfile"
       THEN [dir |-> d, images |-> imgs,
             calls |-> <<Call("write Dockerfile", o.fault.rc, d.meta.status)>>,
             res |-> Failure("Docker execution failed")]
       ELSE IF "transport_type" \in plan.nulls
       \* line 66: None has no lower(), the error ends the build
       THEN [dir |-> d1, images |-> imgs, calls |-> written,
             res |-> Failure("Docker execution failed")]
       ELSE IF o.fault.step = "date"
       THEN [dir |-> d1, images |-> imgs,
             calls |-> written \o <<Call("date", o.fault.rc, d.meta.status)>>,
             res |-> Failure("Docker execution failed")]
       ELSE IF remove_old_image_raises(o.removal)
       THEN [dir |-> [d1 EXCEPT !.meta = metadata], images |-> rm.images,
             calls |-> written \o <<Call("date", 0, d.meta.status)>>
                       \o rm.calls,
             res |-> Failure("Docker execution failed")]
       ELSE IF o.fault.step = "docker build"
       THEN [dir |-> [d1 EXCEPT !.meta =
                        [metadata EXCEPT !.status = StatusAfterFailedBuild]],
             images |-> rm.images, calls |-> calls_to_build,
             res |-> BuildFailure(o.fault.rc)]
       ELSE IF o.fault.step = "docker images"
       THEN [dir |-> [d1 EXCEPT !.meta = ready], images |-> built,
             calls |-> calls_to_build
                       \o <<Call("docker images", o.fault.rc, "ready_to_run")>>,
             res |-> Failure("Docker execution failed")]
       ELSE [dir |-> [d1 EXCEPT !.meta = ready], images |-> built,
             calls |-> calls_to_build
                       \o <<Call("docker images", 0, "ready_to_run")>>,
             res |-> [NoRes EXCEPT
                 !.keys = {"success", "image_name", "image_info",
                           "build_output", "run_command", "run_instructions",
                           "transport_type", "ports", "environment_variables",
                           "required_secrets", "metadata_path"},
                 !.success = TRUE,
                 !.image_name = plan.image_name,
                 !.image_info = ImageInfo,
                 !.build_output = BuildStdout,
                 !.run_command = generated.run_command,
                 !.run_instructions = generated.run_instructions,
                 !.transport_type = transport_type,
                 !.ports = IF ~is_stdio THEN plan.ports ELSE <<>>,
                 !.environment_variables =
                     [i \in 1..Len(plan.environment_variables) |->
                         plan.environment_variables[i].k],
                 !.required_secrets = plan.required_secrets,
                 !.metadata_path = server_name \o <<"/metadata.json">>]]

\* an update that takes the time of the rebuild for the creation time too
UpdatedMetadataRestamped(metadata) ==
    [metadata EXCEPT !.updated_at = DateStdout("update"),
                     !.created_at = DateStdout("update"),
                     !.status = "ready_to_run"]

\* lines 231-232: the two keys that update_server sets
UpdatedMetadata(metadata) ==
    [metadata EXCEPT !.updated_at = DateStdout("update"),
                     !.status = "ready_to_run"]

\* metadata is the object loaded from metadata.json; the result carries
\* the changed metadata, which update_server does not write itself
\* o.fault is the first of "docker build", "date" and "docker images" that
\* fails
update_server(metadata, imgs, o) ==
    LET old_image == metadata.image_name
        rm == IF old_image # <<>>
              THEN remove_old_image(old_image, imgs, o.removal, metadata.status)
              ELSE [images |-> imgs, calls |-> <<>>]
        \* line 217: the recorded path (the key is in every metadata.json
        \* that build_from_plan wrote)
        build_path == metadata.repository_path
        calls_to_build == rm.calls
            \o runner_run(BuildCall(old_image, build_path,
                             IF o.fault.step = "docker build" THEN o.fault.rc ELSE 0,
                             metadata.status))
        built == rm.images \cup {old_image}
        updated == UpdatedMetadata(metadata)
    IN IF old_image # <<>> /\ remove_old_image_raises(o.removal)
       THEN [images |-> rm.images, calls |-> rm.calls,
             res |-> Failure("Docker update failed")]
       ELSE IF o.fault.step = "docker build"
       THEN [images |-> rm.images, calls |-> calls_to_build,
             res |-> [Failure("Docker rebuild failed") EXCEPT
                        !.keys = @ \cup {"stdout", "stderr"},
                        !.stdout = BuildStdout, !.stderr = BuildStderr]]
       ELSE IF o.fault.step = "date"
       THEN [images |-> built,
             calls |-> calls_to_build
                       \o <<Call("date", o.fault.rc, metadata.status)>>,
             res |-> Failure("Docker update failed")]
       ELSE IF o.fault.step = "docker images"
       THEN [images |-> built,
             calls |-> calls_to_build
                       \o <<Call("date", 0, metadata.status),
                            Call("docker images", o.fault.rc, metadata.status)>>,
             res |-> Failure("Docker update failed")]
       ELSE [images |-> built,
             calls |-> calls_to_build
                       \o <<Call("date", 0, metadata.status),
                            Call("docker images", 0, metadata.status)>>,
             res |-> [NoRes EXCEPT
                 !.keys = {"success", "image_info", "build_output", "metadata"},
                 !.success = TRUE, !.image_info = ImageInfo,
                 !.build_output = BuildStdout, !.metadata = updated]]

\* a cleanup that always goes by the conventional names
cleanup_names_conventional(metadata, server_name) ==
    [container |-> DefaultContainer(server_name),
     image |-> DefaultImage(server_name)]

\* lines 252-253: the recorded names, or the conventional ones when the
\* metadata has none (delete passes {} when it could not read the file)
cleanup_names(metadata, server_name) ==
    [container |-> IF metadata.state = "ok" THEN metadata.container_name
                   ELSE DefaultContainer(server_name),
     image |-> IF metadata.state = "ok" THEN metadata.image_name
               ELSE DefaultImage(server_name)]

\* a cleanup that gives up after a container step that did not work
cleanup_results_until_failure(container, image) ==
    IF container.text \in {"Container cleanup error", "Container removal failed"}
    THEN <<container>>
    ELSE <<container, image>>

\* the list that cleanup_server returns: each of its two try blocks appends
\* one line
cleanup_results(container, image) == <<container, image>>

\* metadata is the loaded object, or NoMeta for the empty dictionary;
\* o.container and o.image are the outcomes of the two removals
cleanup_server(metadata, server_name, imgs, ctrs, o) ==
    LET container_name == cleanup_names(metadata, server_name).container
        image_name == cleanup_names(metadata, server_name).image
        st == metadata.status
        container ==
            IF o.container = "lookup failed"
            THEN [containers |-> ctrs, text |-> "Container cleanup error",
                  calls |-> <<Call("docker ps", 1, st)>>]
            ELSE IF container_name \in ctrs
            THEN [containers |-> IF o.container = "removed"
                                 THEN ctrs \ {container_name} ELSE ctrs,
                  text |-> IF o.container = "removed" THEN "Removed container"
                           ELSE "Container removal failed",
                  calls |-> <<Call("docker ps", 0, st),
                              Call("docker stop", 0, st),
                              Call("docker rm",
                                   IF o.container = "removed" THEN 0 ELSE 1, st)>>]
            ELSE [containers |-> ctrs, text |-> "No container found",
                  calls |-> <<Call("docker ps", 0, st)>>]
        image ==
            IF o.image = "lookup failed"
            THEN [images |-> imgs, text |-> "Image cleanup error",
                  calls |-> <<Call("docker images -q", 1, st)>>]
            ELSE IF images_q(image_name, imgs) # {}
            THEN [images |-> IF o.image = "removed" THEN imgs \ {image_name}
                             ELSE imgs,
                  text |-> IF o.image = "removed" THEN "Removed image"
                           ELSE "Image removal failed",
                  calls |-> <<Call("docker images -q", 0, st),
                              Call("docker rmi",
                                   IF o.image = "removed" THEN 0 ELSE 1, st)>>]
            ELSE [images |-> imgs, text |-> "No image found",
                  calls |-> <<Call("docker images -q", 0, st)>>]
    IN [containers |-> container.containers, images |-> image.images,
        calls |-> container.calls \o image.calls,
        results |-> cleanup_results(
                       [text |-> container.text, name |-> container_name],
                       [text |-> image.text, name |-> image_name])]

\* whether the servers directory itself exists
VARIABLE base
\* [AllNames -> directory]: the content of servers_dir
VARIABLE fs
\* the image names present in the container runtime
VARIABLE images
\* the container names present in the container runtime
VARIABLE containers
\* the install suspended at an await, pc = "idle" if none
VARIABLE inst
\* names whose directory an install left behind when it failed at the
\* analysis or planning stage
VARIABLE leftover
\* what the step just taken returned to its caller
VARIABLE ret
\* the argument and the value of a function of the program that is
\* applied on its own, outside an operation of the server
VARIABLE arg
VARIABLE out

vars == <<base, fs, images, containers, inst, leftover, ret, arg, out>>

\* no function is applied on its own: no argument, no run recorded
NoArg == <<>>
NoOut == {}

\* no operation returned in the step just taken
NoRet == [op |-> "none", url |-> <<>>, name |-> <<>>, force |-> FALSE,
          ctx |-> FALSE, res |-> NoRes, calls |-> <<>>, pre |-> NoDir,
          resumed |-> FALSE, response |-> <<>>]

Idle == [pc |-> "idle", url |-> <<>>, name |-> <<>>, path |-> <<>>,
         force |-> FALSE, analysis |-> <<>>, calls |-> <<>>, pre |-> NoDir,
         resumed |-> FALSE]

\* what a directory holds before the program has worked on it: nothing, a
\* directory without metadata.json, or one whose metadata.json is no JSON
PriorDirs == {NoDir,
              [NoDir EXCEPT !.exists = TRUE, !.tree = "other"],
              [NoDir EXCEPT !.exists = TRUE, !.tree = "other",
                            !.meta = CorruptMeta]}

Init ==
    /\ base \in BOOLEAN
    /\ fs \in [AllNames -> PriorDirs]
    /\ base = FALSE => \A n \in AllNames : ~fs[n].exists
    /\ images = {}
    /\ containers = {}
    /\ inst = Idle
    /\ leftover = {}
    /\ ret = NoRet
    /\ arg = NoArg
    /\ out = NoOut

(***************************************************************************)
(* The replies of the collaborators.                                       *)
(***************************************************************************)
AnalysisText == <<"analysis text">>

\* a complete plan for a network server, with the conventional names
FullPlan(server_name) ==
    [NoPlan EXCEPT
        !.keys = {"dockerfile_content", "image_name", "container_name",
                  "ports", "environment_variables", "required_secrets",
                  "volumes", "startup_command", "health_check",
                  "has_existing_dockerfile", "transport_type"},
        !.dockerfile_content = <<"FROM python">>,
        !.image_name = DefaultImage(server_name),
        !.container_name = DefaultContainer(server_name),
        !.ports = <<Pair(<<"8000">>, <<"8080">>)>>,
        !.environment_variables = <<Pair(<<"MODE">>, <<"prod">>)>>,
        !.required_secrets = << <<"I","D">> >>,
        !.transport_type = SSE]

\* a plan for a stdio server that keeps the Dockerfile of the repository
StdioPlan(server_name) ==
    [NoPlan EXCEPT
        !.keys = {"dockerfile_content", "image_name", "container_name",
                  "ports", "startup_command", "has_existing_dockerfile",
                  "transport_type"},
        !.dockerfile_content = <<"FROM node">>,
        !.image_name = DefaultImage(server_name),
        !.container_name = DefaultContainer(server_name),
        !.ports = <<Pair(<<"3000">>, <<"3000">>)>>,
        !.startup_command = <<"node", " ", "main.js">>,
        !.has_existing_dockerfile = TRUE,
        !.transport_type = <<"S","T","D","I","O">>]

\* a reply whose text is not modelled: one that json.loads rejects reads
\* "not json"
Reply(k, p, j) ==
    [kind |-> k, parses |-> p, json |-> j, shape |-> "object",
     raw |-> IF p THEN <<>> ELSE <<"not json">>]

\* what create_message can answer to the plan request: it raises, or
\* returns text that is no JSON, or a JSON object
PlanReplies(server_name) ==
    {Reply("raise", FALSE, NoPlan),
     Reply("text", FALSE, NoPlan),
     Reply("text", TRUE, FullPlan(server_name)),
     Reply("text", TRUE, StdioPlan(server_name)),
     Reply("text", TRUE, [FullPlan(server_name) EXCEPT
                            !.keys = @ \ {"image_name"}]),
     Reply("text", TRUE, [StdioPlan(server_name) EXCEPT
                            !.ports_is_dict = FALSE])}

(***************************************************************************)
(* ServerManager.install                                                   *)
(***************************************************************************)
\* the check with the flag inverted
already_exists_forced(exists, force) == exists /\ force

\* line 26: the directory exists and force is not set
already_exists(exists, force) == exists /\ ~force

\* whether the repository has a Dockerfile at the path of the reference:
\* in the repositories of the model, the root has none and every
\* subdirectory has one
RemoteHasDockerfile(path) == path # <<>>

\* an install that writes a first metadata snapshot right after the clone
ClonedWithSnapshot(path) ==
    [exists |-> TRUE, tree |-> "clone",
     dockerfile |-> IF RemoteHasDockerfile(path) THEN <<"repo">> ELSE <<>>,
     meta |-> [NoMeta EXCEPT !.state = "ok", !.status = "cloned"]]

\* the directory that a successful clone leaves
Cloned(path) ==
    [exists |-> TRUE, tree |-> "clone",
     dockerfile |-> IF RemoteHasDockerfile(path) THEN <<"repo">> ELSE <<>>,
     meta |-> NoMeta]

(***************************************************************************)
(* ResponseFormatter and call_tool: the text that the client is given.  A  *)
(* text is a sequence of pieces; a formatter that looks up a key that the  *)
(* result does not have raises KeyError(key).                              *)
(***************************************************************************)
Text(pieces) == [raises |-> "", text |-> pieces]
KeyError(key) == [raises |-> key, text |-> <<>>]

\* the first of the keys that the result does not have, "" if it has all
FirstMissing(result, keys) ==
    LET missing == {i \in 1..Len(keys) : keys[i] \notin result.keys}
    IN IF missing = {} THEN "" ELSE keys[Min(missing)]

\* str.replace on the characters of a string
Replace(str, old, new) ==
    [i \in 1..Len(str) |-> IF str[i] = old THEN new ELSE str[i]]

\* result.get('error', default): the message with the field it names
ErrorText(result, default) ==
    IF "error" \notin result.keys THEN <<default>>
    ELSE IF result.field # "" THEN <<result.error, ": ", result.field>>
    ELSE <<result.error>>

\* lines 8-65
format_install_success(result) ==
    LET missing == FirstMissing(result, <<"server_name", "image_name", "url",
                                          "dockerfile_status">>)
        server_name == result.server_name
        image_name == result.image_name
        required_secrets == IF "required_secrets" \in result.keys
                            THEN result.required_secrets ELSE <<>>
        ports == IF "ports" \in result.keys THEN result.ports ELSE <<>>
        config_name == Replace(server_name, "-", "_")
        env_entries ==
            [i \in 1..Len(required_secrets) |->
                <<"\"">> \o required_secrets[i] \o <<"\": \"${input:">>
                \o Replace(Lower(required_secrets[i]), "_", "-") \o <<"}\"">>]
        env_config == IF required_secrets = <<>> THEN <<>>
                      ELSE <<"\"env\": {">> \o Join(env_entries, <<",", NL>>)
                           \o <<"}">>
        env_instructions ==
            IF required_secrets = <<>> THEN <<>>
            ELSE <<"**ENVIRONMENT VARIABLES SETUP:** This server requires the following secrets.">>
                 \o Join([i \in 1..Len(required_secrets) |->
                             <<"- ">> \o required_secrets[i]], <<NL>>)
        mcp_config == <<"\"servers\": {\"">> \o config_name
                      \o <<"\": {\"type\": \"stdio\", \"command\": \"docker\", \"args\": ['run', '-i', '--rm', '">>
                      \o image_name \o <<"']">> \o env_config \o <<"}}">>
    IN IF missing # "" THEN KeyError(missing)
       ELSE Text(<<"**MCP Server '">> \o server_name \o <<"' is ready!**">>
                 \o <<"VS Code: Add to .vscode/settings.json under mcp:">>
                 \o mcp_config \o env_instructions
                 \o <<"**SERVER DETAILS:**", "- Repository: ">> \o result.url
                 \o <<"- Docker Image: ">> \o image_name
                 \o <<"- Build Status: ", result.dockerfile_status>>
                 \o <<"- Transport: STDIO (recommended for MCP)">>
                 \o (IF ports # <<>>
                     THEN <<"- Exposed Ports: ">>
                          \o Join([i \in 1..Len(ports) |-> ports[i].k], <<", ">>)
                     ELSE <<>>))

\* lines 67-80
format_install_failure(result) ==
    LET missing == FirstMissing(result, <<"server_name", "url", "server_dir">>)
    IN IF missing # "" THEN KeyError(missing)
       ELSE Text(<<"Docker build failed for MCP server '">>
                 \o result.server_name \o <<"'.", "Analyze result: ">>
                 \o (IF "analysis" \in result.keys THEN result.analysis
                     ELSE <<"No analysis available">>)
                 \o <<"Repository: ">> \o result.url
                 \o <<"Location: ">> \o result.server_dir
                 \o <<"DOCKER ERROR:">>
                 \o ErrorText(result, "Unknown Docker error")
                 \o <<"STDOUT:">>
                 \o (IF "docker_stdout" \in result.keys
                     THEN result.docker_stdout ELSE <<"No output">>)
                 \o <<"STDERR:">>
                 \o (IF "docker_stderr" \in result.keys
                     THEN result.docker_stderr ELSE <<"No errors">>)
                 \o <<"Return Code: ">>
                 \o (IF "return_code" \in result.keys
                     THEN <<ToString(result.return_code)>>
                     ELSE <<"Unknown">>))

\* lines 82-91
format_update_success(result) ==
    LET missing == FirstMissing(result, <<"metadata", "server_name",
                                          "image_info">>)
    IN IF missing # "" THEN KeyError(missing)
       ELSE Text(<<"Successfully updated MCP server '">> \o result.server_name
                 \o <<"'!", "Docker image rebuilt:">> \o result.image_info
                 \o <<"Run instructions:">>
                 \o (IF result.metadata.run_instructions # <<>>
                     THEN result.metadata.run_instructions
                     ELSE <<"Use docker run commands from metadata">>))

\* lines 93-100
format_delete_success(result) ==
    LET missing == FirstMissing(result, <<"server_name", "cleanup_results">>)
        lines == [i \in 1..Len(result.cleanup_results) |->
                    <<result.cleanup_results[i].text, ": ">>
                    \o result.cleanup_results[i].name]
    IN IF missing # "" THEN KeyError(missing)
       ELSE Text(<<"Cleanup completed for MCP server '">> \o result.server_name
                 \o <<"':">> \o Join(lines, <<NL>>))

\* str() of a ports mapping
MappingText(pairs) ==
    <<"{">> \o Join([i \in 1..Len(pairs) |->
                       pairs[i].k \o <<": ">> \o pairs[i].v], <<", ">>)
    \o <<"}">>

\* lines 112-122: the lines of one entry
ServerInfo(server) ==
    IF server.status = "ERROR"
    THEN <<"* ">> \o server.name \o <<": ERROR - ", server.error>>
    ELSE <<"* ">> \o server.name
         \o <<"Repository: ">> \o server.repository
         \o <<"Transport: ">> \o server.transport
         \o <<"Ports: ">>
         \o (IF server.ports = <<>> THEN <<"none (STDIO)">>
             ELSE MappingText(server.ports))
         \o <<"Required Secrets: ">>
         \o (IF server.required_secrets = <<>> THEN <<"none">>
             ELSE Join(server.required_secrets, <<", ">>))
         \o <<"Created: ">> \o server.created

\* lines 102-127
format_list_result(result) ==
    IF "servers" \notin result.keys THEN KeyError("servers")
    ELSE IF result.servers = <<>>
    THEN Text(<<IF "message" \in result.keys THEN result.message
                ELSE "No MCP servers installed yet.">>)
    ELSE IF "count" \notin result.keys THEN KeyError("count")
    ELSE Text(<<"Installed MCP servers (", ToString(result.count), "):">>
              \o Join([i \in 1..Len(result.servers) |->
                         ServerInfo(result.servers[i])], <<NL, NL>>))

\* lines 129-135
format_error(error_message) == <<"Operation failed: ">> \o error_message

\* mcp_installer.py lines 84-123: the text that call_tool returns for the
\* result of an operation; str(KeyError(key)) is 'key'
call_tool(operation, result) ==
    LET formatted ==
          CASE operation = "install" ->
                 IF result.success THEN format_install_success(result)
                 ELSE format_install_failure(result)
            [] operation = "update" ->
                 IF result.success THEN format_update_success(result)
                 ELSE Text(format_error(ErrorText(result, "Update failed")))
            [] operation = "delete" ->
                 IF result.success THEN format_delete_success(result)
                 ELSE Text(format_error(ErrorText(result, "Delete failed")))
            [] operation = "list" -> format_list_result(result)
    IN IF formatted.raises # ""
       THEN format_error(<<"'", formatted.raises, "'">>)
       ELSE formatted.text

Returned(operation, u, n, f, c, result, cmds, before, res0) ==
    [op |-> operation, url |-> u, name |-> n, force |-> f, ctx |-> c,
     res |-> result, calls |-> cmds, pre |-> before, resumed |-> res0,
     response |-> call_tool(operation, result)]

\* the check with the condition inverted
no_context_inverted(ctx) == ctx

\* lines 37-41: the check of the request context
no_context(ctx) == ~ctx

\* what git writes to its standard error when the clone fails
CloneStderr == <<"clone stderr">>

\* subprocess.run with check=True, the default of CommandRunner.run: a
\* non-zero exit raises an error that holds the exit code, the command
\* and the captured output
CalledProcessError(code, command, err) ==
    [raised |-> code # 0, returncode |-> code, cmd |-> command,
     stderr |-> IF code # 0 THEN err ELSE <<>>]

\* GitHubService.clone: the error of the runner propagates unchanged
clone(code) == CalledProcessError(code, "git clone", CloneStderr)

\* str(e) of the error of a command: the command and its exit status
str_of(e) == <<"Command '", e.cmd, "' returned non-zero exit status ",
               ToString(e.returncode), ".">>

\* an install that puts the removed directory back when the clone fails
AfterFailedCloneRolledBack(d) == d

\* lines 32-35: the directory was removed before the clone and a failed
\* clone leaves nothing at its target; no handler restores what was there
AfterFailedClone(d) == NoDir

\* the part of install up to the first await; fault is the first of
\* "rmtree" (shutil.rmtree raises) and "git clone" that fails
InstallStart(url, force, ctx, fault) ==
    /\ inst.pc = "idle"
    /\ ret.op = "none"
    /\ \E info \in {parse_url(url)} :
       LET n == info.server_name
           d == fs[n]
           was_left == n \in leftover
           removed == IF d.exists THEN <<Call("rmtree", 0, d.meta.status)>>
                      ELSE <<>>
           Ret(result, cmds) ==
               Returned("install", url, n, force, ctx, result, cmds, d, was_left)
       IN IF ~info.ok
          THEN /\ ret' = Returned("install", url, <<>>, force, ctx,
                                  Failure("Installation failed"), <<>>,
                                  NoDir, FALSE)
               /\ UNCHANGED <<base, fs, images, containers, inst, leftover>>
          ELSE IF already_exists(d.exists, force)
          THEN /\ ret' = Ret(Failure("already exists"), <<>>)
               /\ UNCHANGED <<base, fs, images, containers, inst, leftover>>
          ELSE IF d.exists /\ fault.step = "rmtree"
          THEN /\ ret' = Ret(Failure("Installation failed"),
                             <<Call("rmtree", fault.rc, d.meta.status)>>)
               /\ UNCHANGED <<base, fs, images, containers, inst, leftover>>
          ELSE IF fault.step = "git clone"
          THEN /\ fs' = [fs EXCEPT ![n] = AfterFailedClone(d)]
               /\ leftover' = leftover \ {n}
               /\ ret' = Ret([Failure("Installation failed") EXCEPT
                                !.cause = str_of(clone(fault.rc))],
                             removed \o runner_run(Call("git clone", fault.rc, "none")))
               /\ UNCHANGED <<base, images, containers, inst>>
          ELSE IF no_context(ctx)
          THEN /\ fs' = [fs EXCEPT ![n] = Cloned(info.path)]
               /\ base' = TRUE
               /\ leftover' = leftover \ {n}
               /\ ret' = Ret(Failure("No request context available for analysis"),
                             removed \o runner_run(Call("git clone", 0, "none")))
               /\ UNCHANGED <<images, containers, inst>>
          ELSE /\ fs' = [fs EXCEPT ![n] = Cloned(info.path)]
               /\ base' = TRUE
               /\ leftover' = leftover \ {n}
               /\ inst' = [pc |-> "analysis", url |-> url, name |-> n,
                           path |-> info.path, force |-> force,
                           analysis |-> <<>>,
                           calls |-> removed \o runner_run(Call("git clone", 0, "none")),
                           pre |-> d, resumed |-> was_left]
               /\ ret' = NoRet
               /\ UNCHANGED <<images, containers>>
    /\ UNCHANGED <<arg, out>>

\* analyze_repository returns; ok = FALSE: create_message raised.  On
\* success install goes on to create_docker_plan and awaits its request.
InstallAnalysis(ok) ==
    /\ inst.pc = "analysis"
    /\ ret.op = "none"
    /\ IF ~ok
       THEN /\ ret' = Returned("install", inst.url, inst.name, inst.force, TRUE,
                               Failure("analysis request failed"),
                               inst.calls \o <<Call("create_message analysis", 1, "none")>>,
                               inst.pre, inst.resumed)
            /\ inst' = Idle
            /\ leftover' = leftover \cup {inst.name}
       ELSE /\ inst' = [inst EXCEPT !.pc = "plan", !.analysis = AnalysisText,
                          !.calls = @ \o <<Call("create_message analysis", 0, "none")>>]
            /\ ret' = NoRet
            /\ UNCHANGED leftover
    /\ UNCHANGED <<base, fs, images, containers>>
    /\ UNCHANGED <<arg, out>>

\* lines 59-79: what install returns after build_from_plan
install_result(execution_result, plan, server_name, url, analysis) ==
    IF execution_result.success
    THEN Merge([NoRes EXCEPT
                  !.keys = {"success", "server_name", "url", "server_dir",
                            "dockerfile_status", "analysis"},
                  !.success = TRUE, !.server_name = server_name,
                  !.url = url, !.server_dir = server_name,
                  !.dockerfile_status =
                      IF plan.has_existing_dockerfile
                      THEN "Using existing Dockerfile"
                      ELSE "Generated new Dockerfile",
                  !.analysis = analysis],
               execution_result)
    ELSE Merge([NoRes EXCEPT
                  !.keys = {"success", "server_name", "analysis", "url",
                            "server_dir"},
                  !.success = FALSE, !.server_name = server_name,
                  !.analysis = analysis, !.url = url,
                  !.server_dir = server_name],
               execution_result)

\* create_docker_plan returns and install runs to its end; reply is the
\* answer to the plan request, o the outcomes of the build's commands
InstallPlan(reply, o) ==
    /\ inst.pc = "plan"
    /\ ret.op = "none"
    /\ \E config_result \in {IF reply.kind = "raise"
                              THEN Failure("plan request failed")
                              ELSE parse_plan(reply)} :
       LET n == inst.name
           request == Call("create_message plan",
                           IF reply.kind = "raise" THEN 1 ELSE 0, "none")
       IN IF ~config_result.success
          THEN /\ ret' = Returned("install", inst.url, n, inst.force, TRUE,
                                  config_result, inst.calls \o <<request>>,
                                  inst.pre, inst.resumed)
               /\ leftover' = leftover \cup {n}
               /\ UNCHANGED <<fs, images>>
          ELSE \E b \in {build_from_plan(config_result.plan, inst.path, n,
                                         fs[n], images, o)} :
               /\ fs' = [fs EXCEPT ![n] = b.dir]
               /\ images' = b.images
               /\ ret' = Returned("install", inst.url, n, inst.force, TRUE,
                                  install_result(b.res, config_result.plan,
                                                 n, inst.url, inst.analysis),
                                  inst.calls \o <<request>> \o b.calls,
                                  inst.pre, inst.resumed)
               /\ UNCHANGED leftover
    /\ inst' = Idle
    /\ UNCHANGED <<base, containers>>
    /\ UNCHANGED <<arg, out>>

(***************************************************************************)
(* ServerManager.update                                                    *)
(***************************************************************************)
\* "absent": there is no metadata.json; "corrupt": json.load raises
metadata_state(d) == d.meta.state

\* an update that goes on without metadata.json
update_precheck_lenient(d) ==
    IF ~d.exists THEN "not found"
    ELSE IF metadata_state(d) = "corrupt" THEN "Update failed"
    ELSE ""

\* lines 88-103: the failure that update returns before it pulls, "" if
\* the directory and its metadata are there
update_precheck(d) ==
    IF ~d.exists THEN "not found"
    ELSE IF metadata_state(d) = "absent" THEN "missing metadata"
    ELSE IF metadata_state(d) = "corrupt" THEN "Update failed"
    ELSE ""

\* what git writes to its standard error when the pull fails
PullStderr == <<"pull stderr">>

\* a pull run with check=False: a non-zero exit raises nothing
pull_unchecked(code) == CalledProcessError(0, "git pull", PullStderr)

\* GitHubService.pull: the runner raises on a non-zero exit of `git pull`
pull(code) == CalledProcessError(code, "git pull", PullStderr)

\* lines 108-121: what update returns for the result of update_server
update_result(server_name, result) ==
    IF result.success
    THEN Merge([NoRes EXCEPT
                  !.keys = {"success", "server_name", "metadata"},
                  !.success = TRUE, !.server_name = server_name,
                  !.metadata = result.metadata],
               result)
    ELSE result

\* o.fault is the first of "git pull" and the commands of update_server
\* that fails
UpdateRun(n, o) ==
    /\ ret.op = "none"
    /\ LET d == fs[n]
           Ret(result, cmds) ==
               Returned("update", <<>>, n, FALSE, FALSE, result, cmds, d, FALSE)
           pulled == Call("git pull",
                          IF o.fault.step = "git pull" THEN o.fault.rc ELSE 0,
                          d.meta.status)
       IN IF update_precheck(d) # ""
          THEN /\ ret' = Ret(Failure(update_precheck(d)), <<>>)
               /\ UNCHANGED <<fs, images>>
          ELSE IF pull(pulled.rc).raised
          THEN /\ ret' = Ret([Failure("Update failed") EXCEPT
                                !.cause = str_of(pull(pulled.rc))],
                             runner_run(pulled))
               /\ UNCHANGED <<fs, images>>
          ELSE \E u \in {update_server(d.meta, images, o)} :
               IF u.res.success
               THEN /\ fs' = [fs EXCEPT ![n] = [d EXCEPT !.tree = "pull",
                                                        !.meta = u.res.metadata]]
                    /\ images' = u.images
                    /\ ret' = Ret(update_result(n, u.res),
                                  runner_run(pulled) \o u.calls)
               ELSE /\ fs' = [fs EXCEPT ![n] = [d EXCEPT !.tree = "pull"]]
                    /\ images' = u.images
                    /\ ret' = Ret(update_result(n, u.res),
                                  runner_run(pulled) \o u.calls)
    /\ UNCHANGED <<base, containers, inst, leftover>>
    /\ UNCHANGED <<arg, out>>

\* update called while no install is suspended
Update(n, o) == inst.pc = "idle" /\ UpdateRun(n, o)

(***************************************************************************)
(* ServerManager.delete                                                    *)
(***************************************************************************)
\* a delete that cleans up whether or not the directory is there
delete_not_found_never(d) == FALSE

\* line 129
delete_not_found(d) == ~d.exists

\* o.rmtree = FALSE: rmtree raises and the directory stays
DeleteRun(n, o) ==
    /\ ret.op = "none"
    /\ LET d == fs[n]
           Ret(result, cmds) ==
               Returned("delete", <<>>, n, FALSE, FALSE, result, cmds, d,
                        n \in leftover)
           metadata == IF metadata_state(d) = "ok" THEN d.meta ELSE NoMeta
           removal == [text |-> IF o.rmtree THEN "Removed repository"
                                ELSE "File cleanup error",
                       name |-> n]
       IN IF delete_not_found(d)
          THEN /\ ret' = Ret(Failure("not found"), <<>>)
               /\ UNCHANGED <<fs, images, containers, leftover>>
          ELSE \E c \in {cleanup_server(metadata, n, images, containers, o)} :
               /\ fs' = [fs EXCEPT ![n] = IF o.rmtree THEN NoDir ELSE d]
               /\ images' = c.images
               /\ containers' = c.containers
               /\ leftover' = IF o.rmtree THEN leftover \ {n} ELSE leftover
               /\ ret' = Ret([NoRes EXCEPT
                                !.keys = {"success", "server_name", "cleanup_results"},
                                !.success = TRUE, !.server_name = n,
                                !.cleanup_results = c.results \o <<removal>>],
                             c.calls \o <<Call("rmtree",
                                                IF o.rmtree THEN 0 ELSE 1,
                                                d.meta.status)>>)
    /\ UNCHANGED <<base, inst>>
    /\ UNCHANGED <<arg, out>>

\* delete called while no install is suspended
Delete(n, o) == inst.pc = "idle" /\ DeleteRun(n, o)

(***************************************************************************)
(* ServerManager.list                                                      *)
(***************************************************************************)
UpperChar(c) ==
    CASE c = "s" -> "S" [] c = "e" -> "E" [] c = "t" -> "T"
      [] c = "d" -> "D" [] c = "i" -> "I" [] c = "o" -> "O" [] OTHER -> c

Upper(str) == [i \in 1..Len(str) |-> UpperChar(str[i])]

NoEntry == [name |-> <<>>, status |-> "", error |-> "", repository |-> <<>>,
            transport |-> <<>>, ports |-> <<>>, required_secrets |-> <<>>,
            created |-> <<>>]

\* a loop that skips a directory without metadata.json
list_entry_skipping(server_name, d, remote_ok) ==
    IF metadata_state(d) = "absent"
    THEN <<>>
    ELSE IF metadata_state(d) = "corrupt"
    THEN <<[NoEntry EXCEPT !.name = server_name, !.status = "ERROR",
                          !.error = "Failed to read metadata"]>>
    ELSE <<[NoEntry EXCEPT !.name = server_name, !.status = "OK",
                          !.repository = IF remote_ok THEN <<"remote url">>
                                         ELSE <<"unknown">>,
                          !.transport = Upper(d.meta.transport_type),
                          !.ports = d.meta.ports,
                          !.required_secrets = d.meta.required_secrets,
                          !.created = d.meta.created_at]>>

\* lines 180-225: the entry of one directory; remote_ok tells whether
\* `git remote get-url origin` exits with 0
list_entry(server_name, d, remote_ok) ==
    IF metadata_state(d) = "absent"
    THEN <<[NoEntry EXCEPT !.name = server_name, !.status = "ERROR",
                          !.error = "Missing metadata.json (corrupted installation)"]>>
    ELSE IF metadata_state(d) = "corrupt"
    THEN <<[NoEntry EXCEPT !.name = server_name, !.status = "ERROR",
                          !.error = "Failed to read metadata"]>>
    ELSE <<[NoEntry EXCEPT !.name = server_name, !.status = "OK",
                          !.repository = IF remote_ok THEN <<"remote url">>
                                         ELSE <<"unknown">>,
                          !.transport = Upper(d.meta.transport_type),
                          !.ports = d.meta.ports,
                          !.required_secrets = d.meta.required_secrets,
                          !.created = d.meta.created_at]>>

RECURSIVE list_entries(_, _, _)
\* the loop over servers_dir.iterdir(), in an order of the directories
list_entries(names, files, remotes) ==
    IF names = {} THEN <<>>
    ELSE LET n == CHOOSE x \in names : TRUE
         IN list_entry(n, files[n], n \in remotes)
            \o list_entries(names \ {n}, files, remotes)

\* remotes: the directories in which the remote lookup succeeds
ListRun(remotes) ==
    /\ ret.op = "none"
    /\ \E servers \in {list_entries({n \in AllNames : fs[n].exists},
                                     fs, remotes)} :
          ret' = Returned("list", <<>>, <<>>, FALSE, FALSE,
                    IF ~base
                    THEN [NoRes EXCEPT !.keys = {"success", "servers", "message"},
                                       !.success = TRUE,
                                       !.message = "No MCP servers installed yet."]
                    ELSE [NoRes EXCEPT !.keys = {"success", "servers", "count"},
                                       !.success = TRUE,
                                       !.servers = servers,
                                       !.count = Len(servers)],
                    <<>>, NoDir, FALSE)
    /\ UNCHANGED <<base, fs, images, containers, inst, leftover>>
    /\ UNCHANGED <<arg, out>>

\* list called while no install is suspended
List(remotes) == inst.pc = "idle" /\ ListRun(remotes)

(***************************************************************************)
(* The operator of the host runs the run command of an installation, as    *)
(* the run instructions tell: the container runtime then has a container   *)
(* of the recorded name.                                                   *)
(***************************************************************************)
RunContainer(n) ==
    /\ inst.pc = "idle"
    /\ ret.op = "none"
    /\ fs[n].exists
    /\ fs[n].meta.state = "ok"
    /\ fs[n].meta.run_command # <<>>
    /\ fs[n].meta.image_name \in images
    /\ fs[n].meta.container_name \notin containers
    /\ containers' = containers \cup {fs[n].meta.container_name}
    /\ ret' = NoRet
    /\ UNCHANGED <<base, fs, images, inst, leftover>>
    /\ UNCHANGED <<arg, out>>

(***************************************************************************)
(* call_tool hands the result of the operation to the client; the server   *)
(* then waits for the next request.                                        *)
(***************************************************************************)
Respond ==
    /\ ret.op # "none"
    /\ ret' = NoRet
    /\ UNCHANGED <<base, fs, images, containers, inst, leftover>>
    /\ UNCHANGED <<arg, out>>

(***************************************************************************)
(* The specification: the operations are accepted one after the other.     *)
(***************************************************************************)
ExitCodes == 1..MaxExit

StartFaults == {NoFault, Fault("rmtree", 1)}
               \cup {Fault("git clone", rc) : rc \in ExitCodes}

BuildFaults == {NoFault, Fault("write Dockerfile", 1), Fault("date", 1),
                Fault("docker images", 1)}
               \cup {Fault("docker build", rc) : rc \in ExitCodes}

BuildOutcomes == [fault : BuildFaults, removal : RemovalOutcomes]

UpdateFaults == {NoFault, Fault("git pull", 1), Fault("date", 1),
                 Fault("docker images", 1)}
                \cup {Fault("docker build", rc) : rc \in ExitCodes}

UpdateOutcomes == [fault : UpdateFaults, removal : RemovalOutcomes]

DeleteOutcomes == [container : RemovalOutcomes, image : RemovalOutcomes,
                   rmtree : BOOLEAN]

Next ==
    \/ \E url \in Urls, force \in BOOLEAN, ctx \in BOOLEAN, fault \in StartFaults :
          InstallStart(url, force, ctx, fault)
    \/ \E ok \in BOOLEAN : InstallAnalysis(ok)
    \/ \E reply \in PlanReplies(inst.name), o \in BuildOutcomes :
          InstallPlan(reply, o)
    \/ \E n \in AllNames, o \in UpdateOutcomes : Update(n, o)
    \/ \E n \in AllNames, o \in DeleteOutcomes : Delete(n, o)
    \/ \E remotes \in SUBSET {n \in AllNames : metadata_state(fs[n]) = "ok"} :
          List(remotes)
    \/ \E n \in AllNames : RunContainer(n)
    \/ Respond

Spec == Init /\ [][Next]_vars

(***************************************************************************)
(* A second specification: two references that resolve to the two names,   *)
(* and plans whose image and container names are not the conventional      *)
(* ones.  Every plan is valid and the only command that fails is the       *)
(* build.                                                                  *)
(***************************************************************************)
\* a reference that resolves to NameOZ
UrlZ == GH \o <<"o","/","z">>

UrlsTwo == {UrlTree, UrlZ}

\* a valid plan that names image and container after the kind of server,
\* whatever the installation is called
SharedImage == <<"mcp-server">>
SharedContainer == <<"mcp-server-container">>

SharedPlan(server_name) ==
    [FullPlan(server_name) EXCEPT !.image_name = SharedImage,
                                  !.container_name = SharedContainer]

PlanRepliesTwo(server_name) ==
    {Reply("text", TRUE, FullPlan(server_name)),
     Reply("text", TRUE, SharedPlan(server_name))}

BuildOutcomesTwo ==
    {[fault |-> NoFault, removal |-> "removed"],
     [fault |-> Fault("docker build", 1), removal |-> "removed"]}

DeleteOutcomesTwo ==
    {[container |-> "removed", image |-> "removed", rmtree |-> TRUE]}

NextTwo ==
    \/ \E url \in UrlsTwo, force \in BOOLEAN :
          InstallStart(url, force, TRUE, NoFault)
    \/ \E ok \in BOOLEAN : InstallAnalysis(ok)
    \/ \E reply \in PlanRepliesTwo(inst.name), o \in BuildOutcomesTwo :
          InstallPlan(reply, o)
    \/ \E n \in AllNames, o \in BuildOutcomesTwo : Update(n, o)
    \/ \E n \in AllNames, o \in DeleteOutcomesTwo : Delete(n, o)
    \/ List({n \in AllNames : metadata_state(fs[n]) = "ok"})
    \/ \E n \in AllNames : RunContainer(n)
    \/ Respond

SpecTwo == Init /\ [][NextTwo]_vars

(***************************************************************************)
(* A third specification: build_from_plan applied to one validated plan in *)
(* processes that differ in their environment.  The code reads nothing of  *)
(* the environment of its process; each run is recorded with the           *)
(* environment it had, the outcomes of its commands and what it persisted. *)
(***************************************************************************)
\* the longest ports mapping and the longest list of secrets of a plan,
\* and the number of runs on one plan
MaxPorts == 2
MaxSecrets == 2
MaxRuns == 2

\* the sequences over S of at most n elements
SeqsUpTo(S, n) == UNION {[1..k -> S] : k \in 0..n}

\* a JSON object has a key once
Injective(q) == \A i, j \in 1..Len(q) : i # j => q[i] # q[j]

PortPool == {Pair(<<"8000">>, <<"8080">>), Pair(<<"9000">>, <<"9090">>)}

SecretPool == {<<"I","D">>, <<"K">>}

\* the value of an environment variable; Unset: the variable is not set
Unset == <<>>
SecretValues == {Unset, <<"hunter2">>}

Environs == [SecretPool -> SecretValues]

Transports == {SSE, STDIO, <<"S","T","D","I","O">>, <<"h","t","t","p">>}

\* "transport_type": null in the reply of the collaborator
NullTransport == <<"null">>

\* validated plans: the optional fields have their defaults or a value
RunPlans ==
    {[FullPlan(NameORC) EXCEPT
         !.keys = IF t = <<>> THEN @ \ {"transport_type"} ELSE @,
         !.nulls = IF t = NullTransport THEN @ \cup {"transport_type"} ELSE @,
         !.transport_type = IF t = NullTransport THEN <<>> ELSE t,
         !.ports = p, !.required_secrets = s,
         !.environment_variables = e, !.startup_command = c] :
       t \in Transports \cup {<<>>, NullTransport},
       p \in {q \in SeqsUpTo(PortPool, MaxPorts) : Injective(q)},
       s \in SeqsUpTo(SecretPool, MaxSecrets),
       e \in {<<>>, <<Pair(<<"MODE">>, <<"prod">>)>>},
       c \in {<<>>, <<"serve", " ", "-p", " ", "9">>}}

InitRun ==
    /\ arg \in RunPlans
    /\ out = NoOut
    /\ base = FALSE
    /\ fs = [n \in AllNames |-> NoDir]
    /\ images = {}
    /\ containers = {}
    /\ inst = Idle
    /\ leftover = {}
    /\ ret = NoRet

\* one run of build_from_plan on a fresh clone, no image built before
GenerateRun(environ, o) ==
    /\ Cardinality(out) < MaxRuns
    /\ \E b \in {build_from_plan(arg, <<>>, NameORC, Cloned(<<>>), {}, o)} :
          out' = out \cup {[environ |-> environ, o |-> o,
                            metadata |-> b.dir.meta, res |-> b.res]}
    /\ UNCHANGED <<base, fs, images, containers, inst, leftover, ret, arg>>

NextRun == \E environ \in Environs, o \in BuildOutcomesTwo : GenerateRun(environ, o)

SpecRun == InitRun /\ [][NextRun]_vars

(***************************************************************************)
(* A fourth specification: parse_url applied to references that are put    *)
(* together from their parts.                                              *)
(***************************************************************************)
\* the most segments of a subpath and the number of calls on one reference
MaxSegments == 3
MaxCalls == 2

\* what can stand between two slashes of a subpath; the empty segment
\* stands for two slashes in a row or a slash at the end
SegmentPool == {<<"a">>, <<"c">>, <<"s", ".", "p", "y">>, <<".">>,
                <<".", ".">>, <<>>}

\* the parts of a reference: shape is "tree", "blob" or "bare"; slash says
\* that a bare reference ends with a slash; segs are the segments of the
\* subpath
References ==
    {[shape |-> "bare", owner |-> <<"o">>, repo |-> r, branch |-> <<>>,
      segs |-> <<>>, slash |-> t] :
        r \in {<<"r">>, <<"r", "-", "c">>}, t \in BOOLEAN}
    \cup
    {[shape |-> k, owner |-> <<"o">>, repo |-> r, branch |-> MAIN,
      segs |-> q, slash |-> FALSE] :
        k \in {"tree", "blob"}, r \in {<<"r">>, <<"r", "-", "c">>},
        q \in SeqsUpTo(SegmentPool, MaxSegments) \ {<<>>}}

\* the subpath that the segments spell
SubpathOf(ref) == Join(ref.segs, <<SLASH>>)

\* the URL of a reference
UrlOf(ref) ==
    IF ref.shape = "bare"
    THEN GH \o ref.owner \o <<SLASH>> \o ref.repo
         \o (IF ref.slash THEN <<SLASH>> ELSE <<>>)
    ELSE GH \o ref.owner \o <<SLASH>> \o ref.repo \o <<SLASH>>
         \o (IF ref.shape = "tree" THEN TREE ELSE BLOB) \o <<SLASH>>
         \o ref.branch \o <<SLASH>> \o SubpathOf(ref)

InitUrl ==
    /\ arg \in References
    /\ out = NoOut
    /\ base = FALSE
    /\ fs = [n \in AllNames |-> NoDir]
    /\ images = {}
    /\ containers = {}
    /\ inst = Idle
    /\ leftover = {}
    /\ ret = NoRet

\* what is under the servers directory at the time of a call
FileStates == {[n \in AllNames |-> NoDir],
               [n \in AllNames |-> IF n = NameORC THEN Cloned(<<>>) ELSE NoDir]}

\* one call of parse_url, recorded with the files there were; the code
\* reads nothing but its argument
ParseUrl(files) ==
    /\ Cardinality(out) < MaxCalls
    /\ \E info \in {parse_url(UrlOf(arg))} :
          out' = out \cup {[files |-> files, info |-> info]}
    /\ UNCHANGED <<base, fs, images, containers, inst, leftover, ret, arg>>

NextUrl == \E files \in FileStates : ParseUrl(files)

SpecUrl == InitUrl /\ [][NextUrl]_vars

(***************************************************************************)
(* A fifth specification: parse_plan applied to the text of a reply, as    *)
(* it is and wrapped in the fences of a code block.                        *)
(***************************************************************************)
\* the text of an object with the given members
ObjectText(members) ==
    <<"{">> \o Join([i \in 1..Len(members) |-> <<members[i]>>], <<",", " ">>)
    \o <<"}">>

Present(member, present) == IF present THEN <<member>> ELSE <<>>

\* the members of the payloads: each required field is there or not, ports
\* as a mapping or as a list, followed by none, two or all of the others
MemberLists ==
    {Present("dockerfile_content", d) \o Present("image_name", i)
       \o Present("container_name", c) \o p \o rest :
       d \in BOOLEAN, i \in BOOLEAN, c \in BOOLEAN,
       p \in {<<>>, <<PortsMapping>>, <<PortsList>>},
       rest \in {<<>>, <<"volumes", "startup_command">>,
                 <<"environment_variables", "required_secrets", "volumes",
                   "startup_command", "health_check",
                   "has_existing_dockerfile", "transport_type">>}}

\* a text of n characters that is no JSON
Scrawl(n) == [i \in 1..n |-> "x"]

\* the lengths of the texts that are no JSON
ScrawlLengths == {0, 1, ExcerptLimit - 1, ExcerptLimit, ExcerptLimit + 1,
                  ExcerptLimit + 100}

\* what the planning collaborator answers, without fences: members is the
\* list of members of an object, text the text
Payloads ==
    {[object |-> TRUE, members |-> m, text |-> ObjectText(m)] :
        m \in MemberLists}
    \cup {[object |-> FALSE, members |-> <<>>, text |-> t] :
            t \in {<<"[", "]">>, <<"1">>, <<"{", "image_name">>}
                   \cup {Scrawl(n) : n \in ScrawlLengths}}

\* the ways to wrap a payload
Wraps == {"plain", "tagged", "untagged", "tagged in spaces", "tagged inline",
          "untagged inline"}

Wrapped(text, wrap) ==
    CASE wrap = "plain" -> text
      [] wrap = "tagged" -> JsonFence \o <<NL>> \o text \o <<NL>> \o Fence
      [] wrap = "untagged" -> Fence \o <<NL>> \o text \o <<NL>> \o Fence
      [] wrap = "tagged in spaces" ->
            <<" ", NL>> \o JsonFence \o <<NL>> \o text \o <<NL>> \o Fence
            \o <<NL, " ">>
      [] wrap = "tagged inline" -> JsonFence \o text \o Fence
      [] wrap = "untagged inline" -> Fence \o text \o Fence

InitPlan ==
    /\ arg \in Payloads
    /\ out = NoOut
    /\ base = FALSE
    /\ fs = [n \in AllNames |-> NoDir]
    /\ images = {}
    /\ containers = {}
    /\ inst = Idle
    /\ leftover = {}
    /\ ret = NoRet

\* one call of parse_plan on the payload in a wrapping
ParsePlan(wrap) ==
    /\ Cardinality(out) < MaxCalls
    /\ \E res \in {parse_plan_text(Wrapped(arg.text, wrap))} :
          out' = out \cup {[wrap |-> wrap, res |-> res]}
    /\ UNCHANGED <<base, fs, images, containers, inst, leftover, ret, arg>>

NextPlan == \E wrap \in Wraps : ParsePlan(wrap)

SpecPlan == InitPlan /\ [][NextPlan]_vars

(***************************************************************************)
(* Properties.                                                             *)
(***************************************************************************)
\* the step just taken is the first step of an install of url
InstallCalled == inst.pc = "idle" /\ ret'.op = "install"

\* nothing on disk and nothing in the container runtime changes
NothingChanges ==
    /\ base' = base
    /\ fs' = fs
    /\ images' = images
    /\ containers' = containers

HasCall(calls, command) == \E i \in 1..Len(calls) : calls[i].cmd = command

AllSucceeded(calls) == \A i \in 1..Len(calls) : calls[i].rc = 0

\* C1: install with force = false of a reference whose name has a
\* directory returns the already-exists failure, changes no file and no
\* directory and runs no external step.
C1_ExistingWithoutForce ==
    [][(/\ InstallCalled
        /\ parse_url(ret'.url).ok
        /\ fs[parse_url(ret'.url).server_name].exists
        /\ ~ret'.force)
       => /\ ~ret'.res.success
          /\ ret'.res.error = "already exists"
          /\ ret'.calls = <<>>
          /\ inst' = inst
          /\ NothingChanges]_vars

\* an install was refused for a directory that holds a complete installation
C1_Witness ==
    /\ ret.op = "install"
    /\ ret.res.error = "already exists"
    /\ ~ret.force
    /\ fs[ret.name].meta.status = "ready_to_run"

\* C2: an install that reports the missing request context has created
\* and removed no directory and has not fetched.
C2_NoContextNoSideEffect ==
    [][(/\ InstallCalled
        /\ ret'.res.error = "No request context available for analysis")
       => /\ fs' = fs
          /\ ~HasCall(ret'.calls, "git clone")
          /\ ~HasCall(ret'.calls, "rmtree")]_vars

\* the reference matches none of the three patterns
NoShape(url) ==
    /\ ~MatchSubpath(url, TREE).matched
    /\ ~MatchSubpath(url, BLOB).matched
    /\ ~MatchBare(url).matched

\* C3: for a reference of none of the three shapes parse_url raises, and
\* install returns a failure, creates and removes no directory and runs no
\* external step.
C3_MalformedReference ==
    [][(InstallCalled /\ NoShape(ret'.url))
       => /\ ~parse_url(ret'.url).ok
          /\ ~ret'.res.success
          /\ ret'.res.error = "Installation failed"
          /\ ret'.calls = <<>>
          /\ inst' = inst
          /\ NothingChanges]_vars

\* an install of a malformed reference was asked with force while the
\* directory of a complete installation was there
C3_Witness ==
    /\ ret.op = "install"
    /\ NoShape(ret.url)
    /\ ret.force
    /\ ~ret.res.success
    /\ \E n \in AllNames : fs[n].meta.status = "ready_to_run"

\* update stops before the pull: it runs nothing and changes nothing
UpdateHardStop ==
    /\ ~ret'.res.success
    /\ ret'.calls = <<>>
    /\ NothingChanges

\* C4 as claimed: update returns NotFound without the directory and the
\* missing-metadata failure when metadata.json is absent or unparsable,
\* and stops hard in each case.
C4_Original ==
    [][(ret'.op = "update")
       => LET d == fs[ret'.name]
          IN /\ ~d.exists
                  => ret'.res.error = "not found" /\ UpdateHardStop
             /\ d.exists /\ d.meta.state \in {"absent", "corrupt"}
                  => ret'.res.error = "missing metadata" /\ UpdateHardStop]_vars

\* C4 amended: update returns NotFound without the directory, the
\* missing-metadata failure when metadata.json is absent and the general
\* update failure (with the parse error) when it is unparsable, and stops
\* hard in each case: no pull, no image removal, no build, no file written.
C4_UpdateHardStop ==
    [][(ret'.op = "update")
       => LET d == fs[ret'.name]
          IN /\ ~d.exists
                  => ret'.res.error = "not found" /\ UpdateHardStop
             /\ d.exists /\ d.meta.state = "absent"
                  => ret'.res.error = "missing metadata" /\ UpdateHardStop
             /\ d.exists /\ d.meta.state = "corrupt"
                  => ret'.res.error = "Update failed" /\ UpdateHardStop]_vars

\* an update of a directory with an unparsable metadata.json returned the
\* general update failure without running anything
C4_Witness ==
    /\ ret.op = "update"
    /\ ret.res.error = "Update failed"
    /\ fs[ret.name].meta.state = "corrupt"
    /\ ret.calls = <<>>

\* C5: delete of a name without a directory returns NotFound, runs no
\* container and no image command and changes no file.
C5_DeleteMissing ==
    [][(ret'.op = "delete" /\ ~fs[ret'.name].exists)
       => /\ ~ret'.res.success
          /\ ret'.res.error = "not found"
          /\ ret'.calls = <<>>
          /\ NothingChanges]_vars

\* a delete found no directory while image and container of the name are
\* still in the runtime
C5_Witness ==
    /\ ret.op = "delete"
    /\ ret.res.error = "not found"
    /\ DefaultImage(ret.name) \in images
    /\ DefaultContainer(ret.name) \in containers

Dirs == {n \in AllNames : fs[n].exists}

EntriesOf(n) == {i \in 1..Len(ret.res.servers) : ret.res.servers[i].name = n}

\* C6: over an existing servers directory list returns success with one
\* entry for each directory and count equal to their number; an entry is
\* ERROR when metadata.json is missing or unparsable, OK otherwise.
C6_ListComplete ==
    (ret.op = "list" /\ base)
    => /\ ret.res.success
       /\ "count" \in ret.res.keys
       /\ ret.res.count = Cardinality(Dirs)
       /\ Len(ret.res.servers) = Cardinality(Dirs)
       /\ \A n \in Dirs :
            /\ Cardinality(EntriesOf(n)) = 1
            /\ \A i \in EntriesOf(n) :
                 ret.res.servers[i].status =
                    IF fs[n].meta.state = "ok" THEN "OK" ELSE "ERROR"

\* a listing of two directories, one without metadata.json and one complete
C6_Witness ==
    /\ ret.op = "list"
    /\ Cardinality(Dirs) = 2
    /\ \E n \in Dirs : fs[n].meta.state = "absent"
    /\ \E n \in Dirs : fs[n].meta.state = "ok"

\* the failures of the analysis request, of the plan request and of the
\* validation of the plan
PlanningErrors ==
    {"analysis request failed", "plan request failed",
     "Invalid JSON in Docker plan", "Missing required field in Docker plan",
     "Ports must be a dictionary mapping container_port:host_port"}

\* C7: when the analysis request, the plan request or the validation of
\* the plan fails, install returns a failure, the cloned directory is on
\* disk without metadata.json, and no build was run.
C7_PlanningFailure ==
    (ret.op = "install" /\ ret.res.error \in PlanningErrors)
    => /\ ~ret.res.success
       /\ fs[ret.name].exists
       /\ fs[ret.name].tree = "clone"
       /\ fs[ret.name].meta.state = "absent"
       /\ HasCall(ret.calls, "git clone")
       /\ ~HasCall(ret.calls, "docker build")
       /\ ~HasCall(ret.calls, "docker rmi")

\* a forced install over a complete installation failed at the validation
C7_Witness ==
    /\ ret.op = "install"
    /\ ret.res.error = "Ports must be a dictionary mapping container_port:host_port"
    /\ ret.pre.meta.status = "ready_to_run"

\* C8: on a directory that a failed analysis or planning left, install
\* without force is refused with already-exists; install with force
\* and a request context fetches again and, when every step succeeds and
\* the plan is valid, asks for analysis and plan, builds, and ends with
\* status ready_to_run.
C8_ResumeWithForce ==
    [][/\ (/\ InstallCalled
           /\ parse_url(ret'.url).ok
           /\ parse_url(ret'.url).server_name \in leftover
           /\ ~ret'.force)
          => ret'.res.error = "already exists" /\ NothingChanges
       /\ (/\ ret'.op = "install"
           /\ ret'.resumed
           /\ ret'.force
           /\ ret'.ctx
           /\ AllSucceeded(ret'.calls)
           /\ ret'.res.error \notin PlanningErrors)
          => /\ ret'.res.success
             /\ fs'[ret'.name].meta.status = "ready_to_run"
             /\ HasCall(ret'.calls, "rmtree")
             /\ HasCall(ret'.calls, "git clone")
             /\ HasCall(ret'.calls, "create_message analysis")
             /\ HasCall(ret'.calls, "create_message plan")
             /\ HasCall(ret'.calls, "docker build")]_vars

\* a forced install on a left-over directory went through
C8_Witness ==
    /\ ret.op = "install"
    /\ ret.resumed
    /\ ret.force
    /\ ret.res.success
    /\ fs[ret.name].meta.status = "ready_to_run"

FailedBuilds(calls) ==
    {i \in 1..Len(calls) : calls[i].cmd = "docker build" /\ calls[i].rc # 0}

\* C9: when the build of an install exits non-zero, the persisted status
\* is build_failed, the result is a failure with the build's stdout,
\* stderr and exit code, and the directory with its source tree and its
\* metadata.json is left in place.
C9_BuildFailed ==
    (ret.op = "install" /\ FailedBuilds(ret.calls) # {})
    => /\ ~ret.res.success
       /\ {"docker_stdout", "docker_stderr", "return_code"} \subseteq ret.res.keys
       /\ ret.res.docker_stdout = BuildStdout
       /\ ret.res.docker_stderr = BuildStderr
       /\ \A i \in FailedBuilds(ret.calls) : ret.res.return_code = ret.calls[i].rc
       /\ fs[ret.name].exists
       /\ fs[ret.name].tree = "clone"
       /\ fs[ret.name].meta.state = "ok"
       /\ fs[ret.name].meta.status = "build_failed"

\* the build of an install failed after the old image had been removed
C9_Witness ==
    /\ ret.op = "install"
    /\ FailedBuilds(ret.calls) # {}
    /\ HasCall(ret.calls, "docker rmi")
    /\ fs[ret.name].meta.status = "build_failed"

\* C10: when install returns success, the persisted metadata has status
\* ready_to_run and holds the run command and the run instructions, and
\* the run command of the result is the persisted one.
C10_SuccessIsReady ==
    (ret.op = "install" /\ ret.res.success)
    => /\ fs[ret.name].meta.state = "ok"
       /\ fs[ret.name].meta.status = "ready_to_run"
       /\ fs[ret.name].meta.run_command # <<>>
       /\ fs[ret.name].meta.run_instructions # <<>>
       /\ "run_command" \in ret.res.keys
       /\ ret.res.run_command = fs[ret.name].meta.run_command
       /\ ret.res.run_instructions = fs[ret.name].meta.run_instructions

\* an install of a reference with a subpath returned success
C10_Witness ==
    /\ ret.op = "install"
    /\ ret.res.success
    /\ ret.url = UrlTree
    /\ ret.res.run_command # <<>>

\* C11: when the rebuild of an update exits non-zero, update returns a
\* failure and the persisted status of the installation is build_failed.
C11_UpdateBuildFailed ==
    (ret.op = "update" /\ FailedBuilds(ret.calls) # {})
    => /\ ~ret.res.success
       /\ fs[ret.name].meta.status = "build_failed"

\* the build calls of a call log
Builds(calls) == {i \in 1..Len(calls) : calls[i].cmd = "docker build"}

\* C12: a successful update runs the rebuild with the image name and the
\* source path recorded in the metadata, and the metadata persisted
\* afterwards is the one before with status ready_to_run and a new
\* updated_at: created_at, names, ports, environment variables, secret
\* names, volumes, transport and run command are as before.
C12_UpdateKeepsMetadata ==
    [][(ret'.op = "update" /\ ret'.res.success)
       => LET before == fs[ret'.name].meta
              after == fs'[ret'.name].meta
          IN /\ Builds(ret'.calls) # {}
             /\ \A i \in Builds(ret'.calls) :
                   /\ ret'.calls[i].tag = before.image_name
                   /\ ret'.calls[i].path = before.repository_path
             /\ after.status = "ready_to_run"
             /\ after.updated_at = DateStdout("update")
             /\ after = [before EXCEPT !.status = after.status,
                                       !.updated_at = after.updated_at]
             /\ after.created_at = before.created_at
             /\ after.image_name = before.image_name
             /\ after.container_name = before.container_name
             /\ after.ports = before.ports
             /\ after.environment_variables = before.environment_variables
             /\ after.required_secrets = before.required_secrets
             /\ after.volumes = before.volumes
             /\ after.transport_type = before.transport_type
             /\ after.run_command = before.run_command]_vars

\* an update of a complete installation of a subpath went through
C12_Witness ==
    /\ ret.op = "update"
    /\ ret.res.success
    /\ ret.pre.meta.status = "ready_to_run"
    /\ ret.pre.meta.repository_path.path # <<>>
    /\ fs[ret.name].meta.created_at = DateStdout("install")
    /\ fs[ret.name].meta.updated_at = DateStdout("update")
    /\ fs[ret.name].meta.run_command = ret.pre.meta.run_command

ContainerOutcomes ==
    {"Removed container", "Container removal failed", "No container found",
     "Container cleanup error"}

ImageOutcomes ==
    {"Removed image", "Image removal failed", "No image found",
     "Image cleanup error"}

DirectoryOutcomes == {"Removed repository", "File cleanup error"}

\* C13: delete of an existing installation looks for the container and
\* for the image whatever the other cleanup did, then removes the
\* directory, and returns three outcomes: container, image, directory.
C13_DeleteThreeOutcomes ==
    (ret.op = "delete" /\ ret.pre.exists)
    => /\ HasCall(ret.calls, "docker ps")
       /\ HasCall(ret.calls, "docker images -q")
       /\ HasCall(ret.calls, "rmtree")
       /\ \A i, j \in 1..Len(ret.calls) :
            (ret.calls[i].cmd = "docker ps" /\ ret.calls[j].cmd = "docker images -q")
            => i < j
       /\ ret.calls[Len(ret.calls)].cmd = "rmtree"
       /\ "cleanup_results" \in ret.res.keys
       /\ Len(ret.res.cleanup_results) = 3
       /\ ret.res.cleanup_results[1].text \in ContainerOutcomes
       /\ ret.res.cleanup_results[2].text \in ImageOutcomes
       /\ ret.res.cleanup_results[3].text \in DirectoryOutcomes

\* a delete whose container removal failed removed the image and the
\* directory
C13_Witness ==
    /\ ret.op = "delete"
    /\ ret.pre.exists
    /\ Len(ret.res.cleanup_results) = 3
    /\ ret.res.cleanup_results[1].text = "Container removal failed"
    /\ ret.res.cleanup_results[2].text = "Removed image"
    /\ ret.res.cleanup_results[3].text = "Removed repository"

\* C14: delete of a directory whose metadata.json is absent or unreadable
\* succeeds and cleans up under the names mcp-<name>-container and
\* mcp-sinstaller-<name>; with a readable metadata.json it cleans up under
\* the recorded container and image names.
C14_DeleteFallbackNames ==
    (ret.op = "delete" /\ ret.pre.exists)
    => /\ ret.res.success
       /\ Len(ret.res.cleanup_results) = 3
       /\ ret.pre.meta.state \in {"absent", "corrupt"}
            => /\ ret.res.cleanup_results[1].name
                    = <<"mcp-">> \o ret.name \o <<"-container">>
               /\ ret.res.cleanup_results[2].name
                    = <<"mcp-sinstaller-">> \o ret.name
       /\ ret.pre.meta.state = "ok"
            => /\ ret.res.cleanup_results[1].name = ret.pre.meta.container_name
               /\ ret.res.cleanup_results[2].name = ret.pre.meta.image_name
       /\ ret.res.cleanup_results[1].text = "Removed container"
            => ret.res.cleanup_results[1].name \notin containers
       /\ ret.res.cleanup_results[2].text = "Removed image"
            => ret.res.cleanup_results[2].name \notin images

\* a delete of a directory that a failed install left without
\* metadata.json went by the conventional names, while an image of a
\* plan-chosen name is in the runtime
C14_Witness ==
    /\ ret.op = "delete"
    /\ ret.pre.exists
    /\ ret.resumed
    /\ ret.pre.meta.state = "absent"
    /\ ret.res.success
    /\ ret.res.cleanup_results[2].name = DefaultImage(ret.name)
    /\ ret.res.cleanup_results[2].text = "No image found"
    /\ SharedImage \in images

\* C15: whenever delete returns success, the directory of the installation
\* no longer exists (so that a following list, update, delete or install
\* finds no installation of that name).
C15_DeletedIsGone ==
    (ret.op = "delete" /\ ret.res.success) => ~fs[ret.name].exists

\* the persisted status of a directory, "none" without a readable
\* metadata.json
Status(files, n) == files[n].meta.status

\* C16: every change of the persisted status of an installation follows
\* the state machine: an install writes image_built and then ready_to_run
\* or build_failed, an update takes ready_to_run to ready_to_run or to
\* build_failed, a removal of the directory ends the record; there is no
\* other status and no other transition.
C16_StatusMachine ==
    [][\A n \in AllNames :
         /\ Status(fs', n) \in {"none", "image_built", "ready_to_run", "build_failed"}
         /\ Status(fs', n) # Status(fs, n)
              => \/ /\ ret'.op = "install"
                    /\ ret'.name = n
                    /\ Status(fs', n) \in {"ready_to_run", "build_failed"}
                    /\ \A i \in Builds(ret'.calls) : ret'.calls[i].st = "image_built"
                 \/ /\ ret'.op = "install" \/ inst'.pc = "analysis"
                    /\ Status(fs', n) = "none"
                 \/ /\ ret'.op = "delete"
                    /\ ret'.name = n
                    /\ Status(fs', n) = "none"
                 \/ /\ ret'.op = "update"
                    /\ ret'.name = n
                    /\ Status(fs, n) = "ready_to_run"
                    /\ Status(fs', n) = "build_failed"]_vars

\* C17: an install, update or delete of one installation leaves the
\* directory and the metadata of every other installation as they are and
\* removes neither the image nor the container that the metadata of the
\* other installation names.
C17_OtherNamesUntouched ==
    [][\A a, b \in AllNames :
         (a # b /\ ret'.op \in {"install", "update", "delete"} /\ ret'.name = a)
         => /\ fs'[b] = fs[b]
            /\ fs[b].meta.state = "ok"
                 => /\ fs[b].meta.image_name \in images
                         => fs[b].meta.image_name \in images'
                    /\ fs[b].meta.container_name \in containers
                         => fs[b].meta.container_name \in containers']_vars

\* the words of a command line
Tokens(cmd) == SplitSpace(cmd)

\* the words of a run command that stand before the image name: the
\* options of `docker run`
RunOptions(plan, cmd) ==
    SubSeq(Tokens(cmd), 1,
           Len(Tokens(cmd)) - Len(SplitSpace(plan.startup_command)) - 1)

\* the positions of the port-publish flags among the options
PublishFlags(options) == {i \in 1..Len(options) : options[i] = <<"-p">>}

\* the position of the k-th flag
NthOf(positions, k) ==
    CHOOSE i \in positions : Cardinality({j \in positions : j <= i}) = k

\* C18: the run command of a plan with transport stdio has no
\* port-publish flag, whatever its ports; the run command of a plan with
\* transport sse has one port-publish flag per entry of ports, in mapping
\* order, each followed by hostPort:containerPort.
C18_PortFlags ==
    \A run \in out :
       (run.metadata.status = "ready_to_run" /\ "transport_type" \in arg.keys)
       => LET options == RunOptions(arg, run.metadata.run_command)
              flags == PublishFlags(options)
          IN /\ arg.transport_type = STDIO => flags = {}
             /\ arg.transport_type = SSE
                  => /\ Cardinality(flags) = Len(arg.ports)
                     /\ \A k \in 1..Len(arg.ports) :
                          /\ NthOf(flags, k) < Len(options)
                          /\ options[NthOf(flags, k) + 1]
                               = arg.ports[k].v \o <<":">> \o arg.ports[k].k

\* the run command of a stdio plan with two ports and a start command
\* that has a -p of its own
C18_Witness ==
    /\ \E run \in out : run.metadata.status = "ready_to_run"
    /\ "transport_type" \in arg.keys
    /\ arg.transport_type = STDIO
    /\ Len(arg.ports) = 2
    /\ arg.startup_command = <<"serve", " ", "-p", " ", "9">>

\* the positions of the options that pass the secret name as a reference
\* to the variable of that name
ReferenceFlags(options, name) ==
    {i \in 1..Len(options) - 1 :
        /\ options[i] = <<"-e">>
        /\ options[i + 1] = name \o <<"=${">> \o name \o <<"}">>}

\* the entries of the list of secrets that are name
EntriesNamed(secrets, name) == {i \in 1..Len(secrets) : secrets[i] = name}

\* the pieces of the values that the environment of a run gives to the
\* secrets
ValuesIn(environ) ==
    UNION {{environ[name][i] : i \in 1..Len(environ[name])} :
             name \in DOMAIN environ}

\* the pieces of a text
Pieces(text) == {text[i] : i \in 1..Len(text)}

RECURSIVE LastSegment(_)
\* the last segment of a subpath: the last of its segments that is not
\* empty, <<>> if all are empty
LastSegment(segs) ==
    IF segs = <<>> THEN <<>>
    ELSE IF segs[Len(segs)] # <<>> THEN segs[Len(segs)]
    ELSE LastSegment(SubSeq(segs, 1, Len(segs) - 1))

\* C20: a reference of the tree or blob shape with a subpath resolves to
\* the name owner-repo-<last segment of the subpath>; a bare reference
\* resolves to owner-repo with branch main and the empty subpath.
C20_NameFromLastSegment ==
    \A call \in out :
       call.info.ok
       => IF arg.shape = "bare"
          THEN /\ call.info.server_name = arg.owner \o DASH \o arg.repo
               /\ call.info.branch = MAIN
               /\ call.info.path = <<>>
          ELSE call.info.server_name
                 = arg.owner \o DASH \o arg.repo \o DASH
                   \o LastSegment(arg.segs)

GivenKeys(members) == {MemberKey(members[i]) : i \in 1..Len(members)}

\* a payload with the four required fields, ports a mapping
HasRequired(payload) ==
    /\ payload.object
    /\ {"dockerfile_content", "image_name", "container_name"}
          \subseteq GivenKeys(payload.members)
    /\ \E i \in 1..Len(payload.members) : payload.members[i] = PortsMapping

\* C22: the plain payload with the four required fields, ports a mapping,
\* validates; the plan has the four values as given, each optional field
\* that the payload gives as given, and each other optional field with its
\* default: environment_variables {}, required_secrets [], volumes {},
\* startup_command null, health_check null, has_existing_dockerfile false.
C22_Defaults ==
    \A call \in out :
       (call.wrap = "plain" /\ HasRequired(arg))
       => LET plan == call.res.plan
              given == GivenKeys(arg.members)
          IN /\ call.res.success
             /\ "plan" \in call.res.keys
             /\ plan.keys = given \cup OptionalFields
             /\ plan.ports_is_dict
             /\ \A f \in given : plan[f] = GivenPlan[f] /\ f \notin plan.nulls
             /\ \A f \in OptionalFields \ given :
                   /\ plan[f] = IF f = "has_existing_dockerfile" THEN FALSE
                                ELSE <<>>
                   /\ f \in plan.nulls
                        <=> f \in {"startup_command", "health_check"}

\* the payload with just the four required fields was validated
C22_Witness ==
    /\ \E call \in out : call.wrap = "plain" /\ call.res.success
    /\ HasRequired(arg)
    /\ GivenKeys(arg.members) \cap OptionalFields = {}

\* C23: a payload in fences, tagged json or not, on lines of their own or
\* not, with white space around or not, validates to the result of the
\* payload as it is: the same plan or the same failure.
C23_FencesAreTransparent ==
    \A c1, c2 \in out : c1.res = c2.res

\* a payload that validates, as it is and in untagged fences
C23_Witness ==
    /\ HasRequired(arg)
    /\ \E c1, c2 \in out :
          /\ c1.wrap = "plain"
          /\ c2.wrap = "untagged"
          /\ c2.res.success

\* a payload whose ports value is a list
HasPortsList(payload) ==
    /\ payload.object
    /\ \E i \in 1..Len(payload.members) : payload.members[i] = PortsList

PortsFailure(res) ==
    /\ ~res.success
    /\ res.error = "Ports must be a dictionary mapping container_port:host_port"

\* C24 as stated: every payload that parses and has a list for ports is
\* rejected with the ports failure, whichever other fields it has.
C24_Original ==
    \A call \in out : HasPortsList(arg) => PortsFailure(call.res)

\* C24: a payload that parses, has the three other required fields and a
\* list for ports is rejected with the ports failure, whichever optional
\* fields it has; one that lacks a required field is rejected with the
\* missing-field failure for the first field that it lacks.
C24_PortsList ==
    \A call \in out :
       HasPortsList(arg)
       => LET given == GivenKeys(arg.members)
              lacking == {i \in 1..Len(RequiredFields) :
                            RequiredFields[i] \notin given}
          IN IF lacking = {} THEN PortsFailure(call.res)
             ELSE /\ ~call.res.success
                  /\ call.res.error = "Missing required field in Docker plan"
                  /\ call.res.field = RequiredFields[Min(lacking)]

\* a payload with all fields, ports a list, was validated
C24_Witness ==
    /\ HasPortsList(arg)
    /\ RequiredFields[1] \in GivenKeys(arg.members)
    /\ RequiredFields[2] \in GivenKeys(arg.members)
    /\ RequiredFields[3] \in GivenKeys(arg.members)
    /\ "health_check" \in GivenKeys(arg.members)
    /\ \E call \in out : call.wrap = "plain"

\* a payload that is no JSON value
NoJson(payload) ==
    /\ ~payload.object
    /\ payload.text \notin {<<"[", "]">>, <<"1">>}

\* C25: when the payload is no JSON, the failure is the invalid-JSON one
\* and its raw_response is no longer than 500 characters.
C25_ExcerptLength ==
    \A call \in out :
       NoJson(arg)
       => /\ ~call.res.success
          /\ call.res.error = "Invalid JSON in Docker plan"
          /\ "raw_response" \in call.res.keys
          /\ Len(call.res.raw_response) <= ExcerptLimit

\* the analysis request of the call log was answered
AnalysisObtained(calls) ==
    \E i \in 1..Len(calls) :
       calls[i].cmd = "create_message analysis" /\ calls[i].rc = 0

\* C26: every result of an install that obtained the analysis text holds
\* the text under the key analysis: on success, when the plan fails and
\* when the build fails.
C26_AnalysisInResult ==
    (ret.op = "install" /\ AnalysisObtained(ret.calls))
    => /\ "analysis" \in ret.res.keys
       /\ ret.res.analysis = AnalysisText

\* C27: the response to an install that failed, for whichever reason,
\* holds the error message of the result.
C27_FailureResponse ==
    (ret.op = "install" /\ ~ret.res.success)
    => ret.res.error \in Pieces(ret.response)

\* the exit code is reported by a result that holds it under return_code
\* or in the text of its error
ReportsCode(result, code) ==
    \/ "return_code" \in result.keys /\ result.return_code = code
    \/ ToString(code) \in Pieces(result.cause)

\* the standard error is reported by a result that holds it under a key
\* or in the text of its error
ReportsStderr(result, err) ==
    \/ "stderr" \in result.keys /\ result.stderr = err
    \/ "docker_stderr" \in result.keys /\ result.docker_stderr = err
    \/ Pieces(err) \subseteq Pieces(result.cause)

\* C28: when the clone command of an install exits non-zero, the error
\* raised by the fetch holds the exit code and the standard error of git,
\* and the failure result of the install reports that exit code and that
\* standard error.
C28_FetchFailureReported ==
    \A i \in DOMAIN ret.calls :
        (ret.op = "install" /\ ret.calls[i].cmd = "git clone"
                            /\ ret.calls[i].rc # 0)
        => \E e \in {clone(ret.calls[i].rc)} :
              /\ e.raised
              /\ e.returncode = ret.calls[i].rc
              /\ e.stderr = CloneStderr
              /\ ~ret.res.success
              /\ ReportsCode(ret.res, e.returncode)
              /\ ReportsStderr(ret.res, e.stderr)

\* the commands of a build from the removal of the stale image on
RemovalAndBuild == {"docker images -q", "docker rmi", "docker build"}

\* C29: in every build of an install, the lookup and the removal of the
\* stale image and the image build command are issued while metadata.json
\* holds the snapshot with status image_built, whatever the directory held
\* before the install.
C29_SnapshotBeforeBuild ==
    \A i \in DOMAIN ret.calls :
        (ret.op = "install" /\ ret.calls[i].cmd \in RemovalAndBuild)
        => ret.calls[i].st = "image_built"

\* an install whose build removed a stale image and ran the build command
C29_Witness ==
    /\ ret.op = "install"
    /\ \E i, j \in DOMAIN ret.calls :
          /\ i < j
          /\ ret.calls[i].cmd = "docker rmi"
          /\ ret.calls[j].cmd = "docker build"

\* the calls hold the lookup of the stale image
HasLookup(calls) == \E i \in DOMAIN calls : calls[i].cmd = "docker images -q"

\* the calls hold the image build command after the lookup
BuildInvoked(calls) ==
    \E i, j \in DOMAIN calls :
        /\ i < j
        /\ calls[i].cmd = "docker images -q"
        /\ calls[j].cmd = "docker build"

\* C30: in every build of an install and in every update that reaches the
\* lookup of the stale image, the image build command is invoked after it,
\* and with any other outcome of the lookup and the removal (lookup failed,
\* removal exited non-zero, removed) the build command is invoked as well
\* and the operation returns the very same result.
C30_RemovalIsBestEffort ==
    [][/\ (ret'.op = "update" /\ HasLookup(ret'.calls)) =>
          \A n \in AllNames, o \in UpdateOutcomes :
            Update(n, o)
            => /\ BuildInvoked(ret'.calls)
               /\ \A removal \in RemovalOutcomes :
                     \E u \in {update_server(fs[n].meta, images,
                                             [o EXCEPT !.removal = removal])} :
                         /\ BuildInvoked(u.calls)
                         /\ ret'.res = update_result(n, u.res)
       /\ (ret'.op = "install" /\ HasLookup(ret'.calls)) =>
          \A reply \in PlanReplies(inst.name), o \in BuildOutcomes :
            InstallPlan(reply, o)
            => /\ BuildInvoked(ret'.calls)
               /\ \A removal \in RemovalOutcomes :
                     \E plan \in {parse_plan(reply).plan} :
                     \E b \in {build_from_plan(plan, inst.path, inst.name,
                                               fs[inst.name], images,
                                               [o EXCEPT !.removal = removal])} :
                         /\ BuildInvoked(b.calls)
                         /\ ret'.res = install_result(b.res, plan, inst.name,
                                                      inst.url, inst.analysis)
      ]_vars

\* an update that succeeded although the removal of the stale image exited
\* non-zero before the build command
C30_Witness ==
    /\ ret.op = "update"
    /\ ret.res.success
    /\ \E i, j \in DOMAIN ret.calls :
          /\ i < j
          /\ ret.calls[i].cmd = "docker rmi"
          /\ ret.calls[i].rc # 0
          /\ ret.calls[j].cmd = "docker build"

\* the calls hold a clone that exited non-zero after the removal of the
\* old directory
RemovedThenFailedClone(calls) ==
    \E i, j \in DOMAIN calls :
        /\ i < j
        /\ calls[i].cmd = "rmtree" /\ calls[i].rc = 0
        /\ calls[j].cmd = "git clone" /\ calls[j].rc # 0

\* the names of the entries of a list result
Listed(result) == {result.servers[i].name : i \in DOMAIN result.servers}

\* C31: a forced install on an existing installation removes the old
\* directory before the clone; when the clone then fails, the directory
\* with its metadata is gone when install returns, and an update or a
\* delete of a name without directory returns not found and changes
\* nothing, and a list holds only names that have a directory.
C31_ForcedInstallIsDestructive ==
    [][/\ (ret'.op = "install" /\ ret'.force /\ ret'.pre.exists
              /\ \E i \in DOMAIN ret'.calls :
                    ret'.calls[i].cmd = "git clone" /\ ret'.calls[i].rc # 0)
          => /\ RemovedThenFailedClone(ret'.calls)
             /\ ~ret'.res.success
             /\ \E n \in AllNames : n = ret'.name /\ fs'[n] = NoDir
       /\ \A n \in AllNames :
            (~fs[n].exists /\ ret'.op \in {"update", "delete"}
                           /\ ret'.name = n)
            => /\ ret'.res = Failure("not found")
               /\ fs' = fs /\ images' = images /\ containers' = containers
       /\ ret'.op = "list"
          => Listed(ret'.res) = {n \in AllNames : fs[n].exists}
      ]_vars

\* a forced install on an installation that was ready to run has failed
\* at the clone
C31_Witness ==
    /\ ret.op = "install"
    /\ ret.force
    /\ ret.pre.exists
    /\ ret.pre.meta.status = "ready_to_run"
    /\ RemovedThenFailedClone(ret.calls)
    /\ \E n \in AllNames : n = ret.name /\ ~fs[n].exists

\* the external steps of install and update: the fetch, the pull, the two
\* requests to the collaborator and the image build
ExternalSteps == {"git clone", "git pull", "create_message analysis",
                  "create_message plan", "docker build"}

\* the positions of the calls of one step
Attempts(calls, step) == {i \in DOMAIN calls : calls[i].cmd = step}

\* C32: in the calls of one install or one update each of the fetch, the
\* pull, the analysis request, the plan request and the image build is
\* there at most once; when one of them failed the result is a failure and
\* no external step was attempted after it.
C32_NoRetry ==
    ret.op \in {"install", "update"}
    => /\ \A step \in ExternalSteps :
             Cardinality(Attempts(ret.calls, step)) <= 1
       /\ \A i \in DOMAIN ret.calls :
             (ret.calls[i].cmd \in ExternalSteps /\ ret.calls[i].rc # 0)
             => /\ ~ret.res.success
                /\ \A j \in DOMAIN ret.calls :
                      j > i => ret.calls[j].cmd \notin ExternalSteps

\* an install has returned after a clone, both requests and a failed build
C32_Witness ==
    /\ ret.op = "install"
    /\ \A step \in ExternalSteps \ {"git pull"} :
          Cardinality(Attempts(ret.calls, step)) = 1
    /\ \E i \in DOMAIN ret.calls :
          ret.calls[i].cmd = "docker build" /\ ret.calls[i].rc # 0

\* the plan is stdio: its transport_type is a string that equals "stdio"
\* when letter case is ignored
IsStdioPlan(plan) ==
    /\ "transport_type" \in plan.keys
    /\ "transport_type" \notin plan.nulls
    /\ Lower(plan.transport_type) = STDIO

\* the options of a stdio run: interactive, auto-remove, no ports
StdioOptions(options) ==
    /\ <<"-i">> \in Pieces(options)
    /\ <<"--rm">> \in Pieces(options)
    /\ <<"-d">> \notin Pieces(options)
    /\ PublishFlags(options) = {}

\* the options of a network run: detached, one publish flag per port
NetworkOptions(options, ports) ==
    /\ <<"-d">> \in Pieces(options)
    /\ <<"-i">> \notin Pieces(options)
    /\ <<"--rm">> \notin Pieces(options)
    /\ Cardinality(PublishFlags(options)) = Len(ports)

\* C33: a build in which no command fails succeeds, and its run command
\* is the stdio one exactly when the transport_type of the plan equals
\* "stdio" ignoring letter case; with every other transport_type, and with
\* none, it is the network one.
C33_TransportDispatch ==
    \A run \in out :
        run.o.fault = NoFault
        => /\ run.res.success
           /\ \E options \in {RunOptions(arg, run.res.run_command)} :
                 IF IsStdioPlan(arg) THEN StdioOptions(options)
                 ELSE NetworkOptions(options, arg.ports)

\* C34: a build of an install writes the dockerfile_content of the plan as
\* the Dockerfile of the source directory when has_existing_dockerfile is
\* false (unless the write itself raises), and when it is true it issues no
\* write and the Dockerfile is after the build what it was before, whatever
\* dockerfile_content the plan has.
C34_DockerfileWritten ==
    [][(ret'.op = "install" /\ HasCall(ret'.calls, "date")) =>
       \A reply \in PlanReplies(inst.name), o \in BuildOutcomes :
          InstallPlan(reply, o)
          => \E plan \in {parse_plan(reply).plan} :
             \E n \in {inst.name} :
                IF plan.has_existing_dockerfile
                THEN /\ fs'[n].dockerfile = fs[n].dockerfile
                     /\ ~HasCall(ret'.calls, "write Dockerfile")
                ELSE /\ fs'[n].dockerfile = plan.dockerfile_content
                     /\ HasCall(ret'.calls, "write Dockerfile")
      ]_vars

\* an install has built from a plan that says there is a Dockerfile and
\* carries another content: the Dockerfile of the repository is still there
C34_Witness ==
    /\ ret.op = "install"
    /\ ret.res.success
    /\ ret.res.dockerfile_status = "Using existing Dockerfile"
    /\ ~HasCall(ret.calls, "write Dockerfile")
    /\ \E n \in AllNames :
          /\ n = ret.name
          /\ fs[n].dockerfile = <<"repo">>
          /\ StdioPlan(n).dockerfile_content # <<"repo">>

\* the failures that build_from_plan returns
BuildErrors == {"Docker build failed", "Docker execution failed"}

\* C35: whenever the build of an install returns a failure result, the
\* status in metadata.json of that installation is not ready_to_run, also
\* when the query of the image made after a successful build fails.
C35_FailureIsNotReady ==
    (ret.op = "install" /\ ~ret.res.success /\ ret.res.error \in BuildErrors)
    => \A n \in AllNames : n = ret.name => fs[n].meta.status # "ready_to_run"

\* C36: in every reachable state a metadata.json with status ready_to_run
\* records a run command and run instructions.
C36_ReadyHasRunCommand ==
    \A n \in AllNames :
        (fs[n].exists /\ metadata_state(fs[n]) = "ok"
                      /\ fs[n].meta.status = "ready_to_run")
        => /\ fs[n].meta.run_command # <<>>
           /\ fs[n].meta.run_instructions # <<>>

\* C37: in every reachable state the image named in a metadata.json with
\* status ready_to_run is an image of the runtime.
C37_ReadyHasImage ==
    \A n \in AllNames :
        (fs[n].exists /\ metadata_state(fs[n]) = "ok"
                      /\ fs[n].meta.status = "ready_to_run")
        => fs[n].meta.image_name \in images

\* C40: in every reachable state every image of the runtime is the image
\* named in the metadata.json of an installation directory that exists.
C40_NoOrphanImage ==
    \A image \in images :
        \E n \in AllNames :
            /\ fs[n].exists
            /\ metadata_state(fs[n]) = "ok"
            /\ fs[n].meta.image_name = image

\* the calls hold a pull that exited non-zero
FailedPull(calls) ==
    \E i \in DOMAIN calls : calls[i].cmd = "git pull" /\ calls[i].rc # 0

\* C38: when the pull of an update exits non-zero the update returns a
\* failure, the pull is the only command it issued (no lookup or removal of
\* the image, no build), and the files with their metadata.json, the images
\* and the containers are what they were.
C38_FailedPullChangesNothing ==
    [][(ret'.op = "update" /\ FailedPull(ret'.calls))
       => /\ ~ret'.res.success
          /\ ret'.res.error = "Update failed"
          /\ Len(ret'.calls) = 1
          /\ fs' = fs
          /\ images' = images
          /\ containers' = containers
      ]_vars

\* an update of an installation that is ready to run, with its image in
\* the runtime, has failed at the pull
C38_Witness ==
    /\ ret.op = "update"
    /\ FailedPull(ret.calls)
    /\ \E n \in AllNames :
          /\ n = ret.name
          /\ fs[n].meta.status = "ready_to_run"
          /\ fs[n].meta.image_name \in images

(***************************************************************************)
(* Requests served while an install is suspended.  call_tool is a          *)
(* coroutine: while install awaits the collaborator the server goes on     *)
(* serving requests, so update, delete and list run between the steps of   *)
(* an install.  One install is in flight at a time.                        *)
(***************************************************************************)
BuildOutcomesAsync ==
    {[fault |-> NoFault, removal |-> "removed"],
     [fault |-> Fault("docker build", 1), removal |-> "removed"]}

UpdateOutcomesAsync ==
    {[fault |-> NoFault, removal |-> "removed"],
     [fault |-> Fault("git pull", 1), removal |-> "removed"],
     [fault |-> Fault("docker build", 1), removal |-> "removed"]}

DeleteOutcomesAsync ==
    {[container |-> "removed", image |-> "removed", rmtree |-> TRUE],
     [container |-> "removed", image |-> "removed", rmtree |-> FALSE]}

NextAsync ==
    \/ \E url \in Urls, force \in BOOLEAN, ctx \in BOOLEAN, fault \in StartFaults :
          InstallStart(url, force, ctx, fault)
    \/ \E ok \in BOOLEAN : InstallAnalysis(ok)
    \/ \E reply \in PlanReplies(inst.name), o \in BuildOutcomesAsync :
          InstallPlan(reply, o)
    \/ \E n \in AllNames, o \in UpdateOutcomesAsync : UpdateRun(n, o)
    \/ \E n \in AllNames, o \in DeleteOutcomesAsync : DeleteRun(n, o)
    \/ \E remotes \in {{}, {n \in AllNames : metadata_state(fs[n]) = "ok"}} :
          ListRun(remotes)
    \/ Respond

SpecAsync == Init /\ [][NextAsync]_vars

\* an install is suspended at a request to the collaborator
Suspended(i) == i.pc \in {"analysis", "plan"}

\* the entries of a list result for one name
ListEntriesOf(result, n) ==
    {i \in DOMAIN result.servers : result.servers[i].name = n}

\* a list made while an install is suspended reports its name as ERROR
ListedAsError ==
    (Suspended(inst) /\ ret'.op = "list" /\ fs[inst.name].exists)
    => /\ ListEntriesOf(ret'.res, inst.name) # {}
       /\ \A i \in ListEntriesOf(ret'.res, inst.name) :
             ret'.res.servers[i].status = "ERROR"

\* an update made while an install of that name is suspended fails, issues
\* no command and changes nothing
UpdateRefused(errors) ==
    (Suspended(inst) /\ ret'.op = "update" /\ ret'.name = inst.name)
    => /\ ~ret'.res.success
       /\ ret'.res.error \in errors
       /\ ret'.calls = <<>>
       /\ fs' = fs /\ images' = images /\ containers' = containers

\* the statement as claimed: while an install is suspended at a request to
\* the collaborator its directory exists and has no metadata.json, a list
\* reports it as ERROR and an update of its name fails with missing
\* metadata, issues no command and changes nothing
C39_Original ==
    [][/\ Suspended(inst')
          => /\ fs'[inst'.name].exists
             /\ metadata_state(fs'[inst'.name]) = "absent"
       /\ ListedAsError
       /\ UpdateRefused({"missing metadata"})
      ]_vars

\* C39: while an install is suspended at a request to the collaborator
\* (one install in flight), its directory has no metadata.json, and it
\* exists unless a delete of the name has removed it meanwhile; a list made
\* at that point reports an existing directory as ERROR; an update of the
\* name fails with missing metadata, or with not found after such a delete,
\* issues neither pull nor build and changes nothing.
C39_SuspendedInstall ==
    [][/\ Suspended(inst')
          => /\ metadata_state(fs'[inst'.name]) = "absent"
             /\ ~fs'[inst'.name].exists
                  => \/ ret'.op = "delete" /\ ret'.name = inst'.name
                     \/ Suspended(inst) /\ ~fs[inst.name].exists
       /\ ListedAsError
       /\ (Suspended(inst) /\ ret'.op = "update" /\ ret'.name = inst.name)
          => ret'.res.error = IF fs[inst.name].exists
                              THEN "missing metadata" ELSE "not found"
       /\ UpdateRefused({"missing metadata", "not found"})
      ]_vars

\* an update has been refused for missing metadata while a forced install
\* over an installation that was ready to run is suspended
C39_Witness ==
    /\ Suspended(inst)
    /\ inst.force
    /\ inst.pre.meta.status = "ready_to_run"
    /\ ret.op = "update"
    /\ ret.name = inst.name
    /\ ret.res.error = "missing metadata"

====
